---- MODULE Spec2Model ----
(***************************************************************************)
(* Model of the NEO worker: the session/page lifecycle manager and the     *)
(* observe-decide-act pipeline of interact(), for both worker classes of   *)
(* src/src/worker.ts: NeoWorker (v3.3, lines 71-552) and                   *)
(* NeoInteractiveWorker (v3.2, lines 669-1171).                            *)
(*                                                                         *)
(* The browser engine is the environment.  A page is "open" (usable),      *)
(* "dead" (closed from outside / crashed) or "closed" (closed by the       *)
(* worker).  Every awaited browser operation on an open page may resolve   *)
(* or reject; on a page that is not open it rejects.  page.url() is a      *)
(* synchronous getter of the cached URL; it throws only in the             *)
(* specification SpecFaults, where urlCanThrow is TRUE.                    *)
(*                                                                         *)
(* A SiteSession object is created together with exactly one page          *)
(* (new SiteSession(page, "")), so a session object is identified by the   *)
(* id of its page; sessUrl[p] is the url field of that object.             *)
(***************************************************************************)
EXTENDS Integers, Sequences, FiniteSets, TLC

\* ------------------------------------------------------------------ bounds
MaxPages == 2

\* ------------------------------------------------------- program constants
NAV_RETRIES == 2

\* -------------------------------------------------------------- input sets
SessionIds == {"s1", "s2"}
Pages == 1..MaxPages
NoPage == 0
Slots == {1, 2}
SeqSlots == {1}

\* A URL is a sequence of tokens; the scheme, when present, is the first one.
Blank == <<"about:blank">>
SiteUrls == {<<>>, <<"a.com">>, <<"https://", "b.com">>}

StartsWithHttp(u) == Len(u) > 0 /\ u[1] \in {"http://", "https://"}

Normalize(u) == IF Len(u) > 0 /\ ~StartsWithHttp(u) THEN <<"https://">> \o u ELSE u

PageUrls == {Blank} \cup {Normalize(u) : u \in SiteUrls \ {<<>>}}

\* ------------------------------------------------------------------- text
\* A text is a sequence of word tokens.  Lower is String.toLowerCase and
\* Parts(t) the regex alternatives that occur in t as a substring.  Cyrillic
\* words are written in Latin transliteration ("rezerviraj" is the Bulgarian
\* word for "book", with the stem "rezerv" the regexes look for).
Lower(t) ==
    CASE t = "Rezerviraj" -> "rezerviraj"
      [] t = "Rooms" -> "rooms"
      [] t = "Contact" -> "contact"
      [] t = "Search" -> "search"
      [] t = "REZERVIRAJ" -> "rezerviraj"
      [] t = "Book" -> "book"
      [] t = "Close" -> "close"
      [] t = "Email" -> "email"
      [] OTHER -> t

Parts(t) ==
    CASE t = "rezerviraj" -> {"rezerv", "rezerviraj"}
      [] t = "Rezerviraj" -> {}
      [] t = "book" -> {"book"}
      [] t = "rooms" -> {"rooms"}
      [] t = "Rooms" -> {}
      [] t = "contact" -> {"contact"}
      [] t = "Contact" -> {}
      [] t = "search" -> {"search"}
      [] t = "Search" -> {}
      [] t = "scroll" -> {"scroll"}
      [] t = "check" -> {"check"}
      [] t = "checkin" -> {"checkin", "check"}
      [] t = "checkout" -> {"checkout", "check"}
      [] t = "guests" -> {"guests", "guest"}
      [] t = "email" -> {"email", "mail"}
      [] t = "user_email" -> {"email", "mail"}
      [] t = "close" -> {"close"}
      [] t = "phone" -> {"phone"}
      [] t = "date_from_to" -> {"date", "from", "to"}
      [] t = "a@b.com" -> {"@email"}
      [] t = "c@d.org" -> {"@email"}
      [] t = "12.05" -> {"@date"}
      [] OTHER -> {}

\* regex.test(text) for an alternation with the /i flag
TestI(alts, text) == \E i \in 1..Len(text) : Parts(Lower(text[i])) \cap alts # {}

ToLowerCase(text) == [i \in 1..Len(text) |-> Lower(text[i])]

\* a variant of FindIndex that yields the last matching element
FindLastIndex(hits) == IF hits = {} THEN 0 ELSE CHOOSE i \in hits : \A j \in hits : i >= j

\* Array.prototype.find over the indices whose element satisfies the callback:
\* the first of them, 0 if there is none
FindIndex(hits) == IF hits = {} THEN 0 ELSE CHOOSE i \in hits : \A j \in hits : i <= j

\* ------------------------------------------------------------ requests
Messages == {<<"hello">>, <<"rezerviraj">>, <<"rooms">>, <<"a@b.com">>, <<"scroll">>}

NoBooking == [present |-> FALSE, check_in |-> "", check_out |-> "", guests |-> 0]
FullBooking == [present |-> TRUE, check_in |-> "2024-03-15", check_out |-> "2024-03-17", guests |-> 2]
GuestsBooking == [present |-> TRUE, check_in |-> "", check_out |-> "", guests |-> 2]

\* the (message, booking_data) pairs of the requests
Request(m, b) == [msg |-> m, booking |-> b]
Requests ==
    {Request(m, NoBooking) : m \in Messages}
      \cup {Request(<<"rezerviraj">>, FullBooking), Request(<<"rezerviraj">>, GuestsBooking),
            Request(<<"hello">>, FullBooking)}

\* ------------------------------------------------------------ page content
\* What a DOM scan can find on a page (the result of the in-page script of
\* observeDOM, without the url, which is the page's).
Btn(text, sel) == [text |-> text, selector |-> sel]
Inp(type, name, ph, sel) ==
    [type |-> type, name |-> name, placeholder |-> ph, selector |-> sel, label |-> "", value |-> ""]

EmptyDom == [title |-> "T", buttons |-> <<>>, inputs |-> <<>>, prices |-> <<>>, avail |-> FALSE]
HotelDom ==
    [title |-> "T",
     buttons |-> <<Btn(<<"Rooms">>, "#rooms"), Btn(<<"Rezerviraj">>, ".btn")>>,
     inputs |-> <<Inp("email", "email", "", "#email"), Inp("date", "d1", "", ".date"),
                  Inp("date", "d2", "", "input:nth-of-type(3)")>>,
     prices |-> <<"100 lv">>,
     avail |-> TRUE]
Doms == {EmptyDom, HotelDom}

NoObs == [url |-> <<>>, title |-> "", buttons |-> <<>>, inputs |-> <<>>, prices |-> <<>>,
          avail |-> FALSE, kind |-> "none"]

\* the DOMObservation returned by observeDOM on a page at url u showing d
Scan(d, u) == [url |-> u, title |-> d.title, buttons |-> d.buttons, inputs |-> d.inputs,
               prices |-> d.prices, avail |-> d.avail, kind |-> "scan"]

\* a variant of Decision that reports "wait" where nothing is decided
DecisionOrWait(action, target, value, reason) ==
    [action |-> IF action = "none" THEN "wait" ELSE action,
     target |-> target, value |-> value, reason |-> reason]

\* ------------------------------------------------- v3.3 decision and message
Decision(action, target, value, reason) ==
    [action |-> action, target |-> target, value |-> value, reason |-> reason]

\* NeoWorker.decideAction: rooms, then contact, else none
decideAction33(msg, obs) ==
    LET lower == ToLowerCase(msg)
        roomsBtn == FindIndex({k \in DOMAIN obs.buttons :
            TestI({"stai", "rooms", "nastanyavane", "accommodation"}, obs.buttons[k].text)})
        contactBtn == FindIndex({k \in DOMAIN obs.buttons :
            TestI({"kontakt", "contact", "svarzhi"}, obs.buttons[k].text)})
    IN  IF TestI({"stai", "rooms", "nastanyavane"}, lower) /\ roomsBtn # 0
        THEN Decision("click", obs.buttons[roomsBtn].selector, "", obs.buttons[roomsBtn].text)
        ELSE IF TestI({"kontakt", "contact", "svarzhi"}, lower) /\ contactBtn # 0
        THEN Decision("click", obs.buttons[contactBtn].selector, "", obs.buttons[contactBtn].text)
        ELSE Decision("none", "", "", <<"Nablyudenie">>)

\* the booking words of isBookingRequest occur in the message
BookingIntent(msg) ==
    TestI({"rezerv", "book", "zapazi", "nalichnost", "svobodn", "availability"}, ToLowerCase(msg))

\* a variant of isBookingRequest that looks at the message only
isBookingRequestByWords(msg, booking) == BookingIntent(msg)

\* NeoWorker.interact: isBookingRequest
isBookingRequest(msg, booking) ==
    \/ BookingIntent(msg)
    \/ (booking.present /\ booking.check_in # "" /\ booking.check_out # "")

\* NeoWorker.buildMessage: the parts of the message, in order
buildMessage33(action, obs) ==
    (IF action # <<>> THEN <<"action">> ELSE <<>>)
    \o <<"title">>
    \o (IF Len(obs.buttons) > 0 THEN <<"buttons">> ELSE <<>>)
    \o (IF Len(obs.prices) > 0 THEN <<"prices">> ELSE <<>>)
    \o (IF obs.avail THEN <<"availability">> ELSE <<>>)

\* ------------------------------------------------------------------ state
VARIABLES
    ver,          \* the worker class of this run: "v33" NeoWorker, "v32" NeoInteractiveWorker
    urlCanThrow,  \* environment: whether page.url() may throw (SpecFaults only)
    browser,      \* this.browser and the engine: "null", "up", "down"
    context,      \* this.context # null
    isReady,      \* this.isReady
    startPc,      \* start(): "init", "launched", "done", "failed"
    sessions,     \* this.sessions: session id -> page of its SiteSession, NoPage if no entry
    sessUrl,      \* SiteSession.url of the session object created with each page
    pageStatus,   \* page -> "none" (not created), "open", "dead", "closed"
    pageUrl,      \* page -> the URL the page shows
    nextPage,     \* id of the next page context.newPage() creates
    shutdownRes,  \* outcome of the latest shutdown(): "none", "ok", "threw"
    lastClose,    \* the closeSession(id) that returned since the last interact, if any
    req,          \* slot -> frame of the interact call in that slot
    defaultSession, \* command worker: this.defaultSession, the page of that session or NoPage
    cmd,          \* command worker: the latest command execute() ran, and its response
    edge          \* edge function: the frame of the handleLegacyAction call

vars == <<ver, urlCanThrow, browser, context, isReady, startPc, sessions, sessUrl,
          pageStatus, pageUrl, nextPage, shutdownRes, lastClose, req,
          defaultSession, cmd, edge>>

\* the state of the command worker and of the edge function, which the
\* interact workers never touch
beyond == <<defaultSession, cmd, edge>>

NoResult == [returned |-> FALSE, success |-> FALSE, message |-> <<>>, hasObs |-> FALSE,
             obs |-> NoObs, action_taken |-> <<>>, logs |-> <<>>]

NoDecision == Decision("", "", "", <<>>)

NoClose == [id |-> "", page |-> NoPage]

\* the run of the in-page script of observeDOM (lookAtPage in the command
\* worker): the page it ran on and the lists it returned
NoScan == [page |-> [els |-> <<>>, prices |-> 0], done |-> FALSE,
           buttons |-> <<>>, inputs |-> <<>>, links |-> <<>>, prices |-> <<>>]

\* the run of a click or fill executor: which one, on which target, whether a
\* session exists (command worker), the strategy to try next, the strategies
\* tried so far, and how it ended
NoExec == [kind |-> "", target |-> "", session |-> FALSE, next |-> 0, tried |-> <<>>,
           performed |-> FALSE, raised |-> FALSE]

IdleFrame ==
    [pc |-> "idle", sid |-> "s1", site_url |-> <<>>, msg |-> <<>>, booking |-> NoBooking,
     page |-> NoPage, needsNav |-> FALSE, target |-> <<>>, attempt |-> 0, logs |-> <<>>,
     obs |-> NoObs, decision |-> NoDecision, actions |-> <<>>, closing |-> NoPage,
     result |-> NoResult,
     \* history of the call
     startPage |-> NoPage, probe |-> "none", gotos |-> 0,
     navFailed |-> FALSE, obsFailed |-> FALSE, created |-> 0, caught |-> "none",
     navRet |-> "none", navTrace |-> <<>>,
     \* how many actions had been performed when f.obs was captured
     obsAfter |-> 0,
     \* the selected click or fill was attempted and no strategy realized it
     unrealized |-> FALSE,
     \* the latest booking fill, if it succeeded: the selector that took the
     \* value and the rank of that attempt in the helper's chain
     lastFill |-> [selector |-> "", attempt |-> 0],
     \* the executor run of the frame (executor specification only)
     exec |-> NoExec,
     \* the scan of the frame (scan specification only)
     scan |-> NoScan,
     \* the message of a call in the booking branch matched the booking words
     intent |-> FALSE]

\* the response of the command worker to a command (WorkerResponse): the
\* command it answers, success, and the data of a look
WorkerResult(action, success, data) == [action |-> action, success |-> success, data |-> data]

NoWorkerResult == WorkerResult("", FALSE, EmptyDom)

\* the latest command of the command worker: the action and sessionId it
\* carried, the page it operated on (created, for open), and the response
NoCommand == [action |-> "", sessionId |-> "", page |-> NoPage, success |-> FALSE, error |-> ""]

\* the HTTP response of the edge function
NoResponse == [returned |-> FALSE, status |-> 0, success |-> FALSE, mode |-> "",
               body |-> "none", result |-> NoWorkerResult]

\* the frame of handleLegacyAction: type and payload of the request, the worker
\* commands sent so far, the results received (steps), the first look, the
\* click target, the index in fieldsToFill of the field being filled, the
\* submit result, and the response
NoPayload == [mode |-> "", values |-> [k \in {} |-> ""]]

NoEdge == [pc |-> "idle", type |-> "", payload |-> NoPayload, sent |-> <<>>, steps |-> <<>>,
           look |-> NoWorkerResult, target |-> "", field |-> 0, submit |-> NoWorkerResult,
           response |-> NoResponse]

InitBeyond ==
    /\ defaultSession = NoPage
    /\ cmd = NoCommand
    /\ edge = NoEdge

InitCommon ==
    /\ ver \in {"v33", "v32"}
    /\ browser = "null"
    /\ context = FALSE
    /\ isReady = FALSE
    /\ startPc = "init"
    /\ sessions = [s \in SessionIds |-> NoPage]
    /\ sessUrl = [p \in Pages |-> <<>>]
    /\ pageStatus = [p \in Pages |-> "none"]
    /\ pageUrl = [p \in Pages |-> Blank]
    /\ nextPage = 1
    /\ shutdownRes = "none"
    /\ lastClose = NoClose
    /\ req = [r \in Slots |-> IdleFrame]
    /\ InitBeyond

Init == InitCommon /\ urlCanThrow = FALSE

InitFaults == InitCommon /\ urlCanThrow = TRUE

\* shutdown() has not been called.  Its callers exit the process after it
\* (process.exit(0) in the signal handlers); an interact after it would find
\* an empty map and a context that creates no page, which NewPageFail covers.
Running == shutdownRes = "none"

\* no interact call is in flight
AllIdle == \A r \in Slots : req[r].pc = "idle"

\* no call is at the point of handing its result to the caller
NoneReturning == \A r \in Slots : req[r].pc # "done"

\* ------------------------------------------------------------- environment
\* outcomes of an awaited operation on page p
Outcomes(p) == IF pageStatus[p] = "open" THEN {"ok", "fail"} ELSE {"fail"}

\* outcomes of the synchronous page.url()
UrlOutcomes == IF urlCanThrow THEN {"ok", "throw"} ELSE {"ok"}

\* A page is reachable through the session map or through the local
\* variables of a call in flight.
Referenced(p, sess, frames) ==
    \/ \E s \in SessionIds : sess[s] = p
    \/ \E r \in Slots : frames[r].pc # "idle" /\ p \in {frames[r].page, frames[r].closing}

\* a page is closed from outside the worker, or crashes
ExternalClose(p) ==
    /\ Running
    /\ NoneReturning
    /\ Referenced(p, sessions, req)
    /\ pageStatus[p] = "open"
    /\ pageStatus' = [pageStatus EXCEPT ![p] = "dead"]
    /\ UNCHANGED <<beyond, ver, urlCanThrow, browser, context, isReady, startPc, sessions, sessUrl,
                   pageUrl, nextPage, shutdownRes, req, lastClose>>

\* page.close(): an open page becomes closed; on a dead page the call may
\* resolve or reject, and the page is not open afterwards either way
CloseResults(p) ==
    CASE pageStatus[p] = "open" -> {"closed"}
      [] pageStatus[p] = "dead" -> {"closed", "dead"}
      [] OTHER -> {pageStatus[p]}

\* The page and session objects no reference reaches any more are garbage:
\* their url fields are dropped from the state, and of their status only
\* whether the page is still open is kept.
Sweep(st) ==
    [p \in Pages |-> IF st[p] = "dead" /\ ~Referenced(p, sessions', req') THEN "closed" ELSE st[p]]

Forget ==
    /\ pageUrl' = [p \in Pages |-> IF Referenced(p, sessions', req') THEN pageUrl[p] ELSE Blank]
    /\ sessUrl' = [p \in Pages |-> IF Referenced(p, sessions', req') THEN sessUrl[p] ELSE <<>>]

\* ------------------------------------------------------------------ start
\* NeoWorker.start / NeoInteractiveWorker.start: chromium.launch
StartLaunch ==
    /\ startPc = "init"
    /\ Running /\ AllIdle
    /\ \E ok \in BOOLEAN :
          IF ok THEN browser' = "up" /\ startPc' = "launched"
                ELSE browser' = browser /\ startPc' = "failed"
    /\ UNCHANGED <<beyond, ver, urlCanThrow, context, isReady, sessions, sessUrl, pageStatus,
                   pageUrl, nextPage, shutdownRes, req, lastClose>>

\* a variant of StartContext that sets isReady before newContext settles
StartContextEager ==
    /\ startPc = "launched"
    /\ Running /\ AllIdle
    /\ \E ok \in BOOLEAN :
          IF ok THEN context' = TRUE /\ isReady' = TRUE /\ startPc' = "done"
                ELSE context' = context /\ isReady' = TRUE /\ startPc' = "failed"
    /\ UNCHANGED <<beyond, ver, urlCanThrow, browser, sessions, sessUrl, pageStatus,
                   pageUrl, nextPage, shutdownRes, req, lastClose>>

\* start: browser.newContext, then isReady = true
StartContext ==
    /\ startPc = "launched"
    /\ Running /\ AllIdle
    /\ \E ok \in BOOLEAN :
          IF ok THEN context' = TRUE /\ isReady' = TRUE /\ startPc' = "done"
                ELSE context' = context /\ isReady' = isReady /\ startPc' = "failed"
    /\ UNCHANGED <<beyond, ver, urlCanThrow, browser, sessions, sessUrl, pageStatus,
                   pageUrl, nextPage, shutdownRes, req, lastClose>>

\* ------------------------------------------------------- frames of interact
\* A log line is written as its tag; the lines that report a navigation
\* failure carry a word more.
NavError == "OPEN nav error"
NavAttemptError == "RESULT nav error"
NavFailed == "OPEN nav failed"

\* the [TAG] a log line starts with
Tag(line) ==
    CASE line \in {NavError, NavFailed} -> "OPEN"
      [] line = NavAttemptError -> "RESULT"
      [] OTHER -> line

\* log(tag, msg) and logs.push
Log(f, line) == [f EXCEPT !.logs = Append(@, line)]

SetReq(r, g) == req' = [req EXCEPT ![r] = g]

\* return { success: false, message, logs } of the catch block
ReturnFailure(f) ==
    [f EXCEPT !.pc = "done",
              !.result = [returned |-> TRUE, success |-> FALSE, message |-> <<"error">>,
                          hasObs |-> FALSE, obs |-> NoObs, action_taken |-> <<>>,
                          logs |-> f.logs]]

\* The catch block of interact up to its first await: log the error, look the
\* session up and start closing its page; without an entry, return at once.
EnterCatch(f, op) ==
    LET g == [Log(f, "RESULT") EXCEPT !.caught = op, !.site_url = <<>>, !.target = <<>>,
                                      !.needsNav = FALSE, !.attempt = 0, !.msg = <<>>,
                                      !.booking = NoBooking, !.obs = NoObs,
                                      !.decision = NoDecision, !.actions = <<>>,
                                      !.obsAfter = 0, !.intent = FALSE]
    IN  IF sessions[f.sid] # NoPage
        THEN [g EXCEPT !.pc = "catchClose", !.closing = sessions[f.sid]]
        ELSE ReturnFailure(g)

\* a variant of Throw without the catch block: the exception leaves interact
ThrowEscapes(f, op) == [f EXCEPT !.pc = "escaped", !.caught = op]

\* an exception raised inside the try block of interact
Throw(f, op) == EnterCatch(f, op)

\* a variant of Delete that leaves the entry in the map
DeleteNothing(sess, id) == sess

\* a variant of Delete that clears the whole map
DeleteAll(sess, id) == [s \in SessionIds |-> NoPage]

\* this.sessions.delete(session_id)
Delete(sess, id) == [sess EXCEPT ![id] = NoPage]

\* the catch block after page.close() settled: delete the entry and return
CatchClose(r) ==
    LET f == req[r] IN
    /\ f.pc = "catchClose"
    /\ \E st \in CloseResults(f.closing) :
          pageStatus' = [pageStatus EXCEPT ![f.closing] = st]
    /\ sessions' = Delete(sessions, f.sid)
    /\ SetReq(r, ReturnFailure(f))
    /\ UNCHANGED <<beyond, ver, urlCanThrow, browser, context, isReady, startPc, sessUrl,
                   pageUrl, nextPage, shutdownRes, lastClose>>

\* ------------------------------------------------------- session resolution
\* the readiness check of NeoWorker.interact
NotReady33 == ~isReady \/ ~context

\* the readiness check of NeoInteractiveWorker.interact
NotReady32 == ~isReady \/ browser = "null" \/ ~context

\* a variant of NotReady for an interact without the readiness check
NotReadyIgnored == FALSE

\* the readiness check of the worker class of this run
NotReady == IF ver = "v33" THEN NotReady33 ELSE NotReady32

NotReadyResult33 ==
    [returned |-> TRUE, success |-> FALSE, message |-> <<"not ready">>, hasObs |-> FALSE,
     obs |-> NoObs, action_taken |-> <<>>, logs |-> <<>>]

NotReadyResult32 ==
    [returned |-> TRUE, success |-> FALSE, message |-> <<"not ready">>, hasObs |-> FALSE,
     obs |-> NoObs, action_taken |-> <<>>, logs |-> <<"Worker not ready">>]

\* interact() from the call to its first await: readiness check, first log
\* line, lookup of the session
Call(r) ==
    /\ Running
    /\ req[r].pc = "idle"
    /\ \E sid \in SessionIds, url \in SiteUrls :
          LET f0 == [IdleFrame EXCEPT !.sid = sid, !.site_url = url,
                                      !.startPage = sessions[sid]]
          IN  /\ IF NotReady
                 THEN SetReq(r, [f0 EXCEPT !.pc = "done",
                                           !.result = IF ver = "v33" THEN NotReadyResult33
                                                      ELSE NotReadyResult32])
                 ELSE IF sessions[sid] = NoPage
                 THEN SetReq(r, [Log(Log(f0, "OPEN"), "OPEN") EXCEPT !.pc = "newPage"])
                 ELSE SetReq(r, [Log(f0, "OPEN") EXCEPT !.pc = "probe", !.page = sessions[sid]])
    /\ lastClose' = NoClose
    /\ UNCHANGED <<beyond, ver, urlCanThrow, browser, context, isReady, startPc, sessions, sessUrl,
                   pageStatus, pageUrl, nextPage, shutdownRes>>

CanCreatePage == browser = "up" /\ context /\ nextPage <= MaxPages

\* session = new SiteSession(page, ""); this.sessions.set(session_id, session)
Register(f) ==
    /\ sessions' = [sessions EXCEPT ![f.sid] = nextPage]
    /\ nextPage' = nextPage + 1

\* context.newPage() resolved for an unseen session id
NewPageOk(r) ==
    LET f == req[r] IN
    /\ f.pc = "newPage"
    /\ CanCreatePage
    /\ Register(f)
    /\ SetReq(r, [f EXCEPT !.pc = "probe", !.page = nextPage, !.needsNav = TRUE,
                           !.created = @ + 1])
    /\ pageStatus' = [pageStatus EXCEPT ![nextPage] = "open"]
    /\ pageUrl' = [pageUrl EXCEPT ![nextPage] = Blank]
    /\ sessUrl' = [sessUrl EXCEPT ![nextPage] = <<>>]
    /\ UNCHANGED <<beyond, ver, urlCanThrow, browser, context, isReady, startPc, shutdownRes, lastClose>>

\* context.newPage() rejected
NewPageFail(r) ==
    LET f == req[r] IN
    /\ f.pc \in {"newPage", "recreate"}
    /\ SetReq(r, Throw(f, "newPage"))
    /\ UNCHANGED <<beyond, ver, urlCanThrow, browser, context, isReady, startPc, sessions, sessUrl,
                   pageStatus, pageUrl, nextPage, shutdownRes, lastClose>>

\* log("OBSERVE", "Scanning page...") and the call of observeDOM
BeginObserve(f) == [Log(f, "OBSERVE") EXCEPT !.pc = "observe"]

\* NeoWorker.interact after the session is resolved: normalise the URL and
\* either start the navigation or go on to the observation
AfterResolve33(f) ==
    LET g == [f EXCEPT !.target = Normalize(f.site_url)]
    IN  IF g.needsNav /\ g.target # <<>>
        THEN [Log(g, "OPEN") EXCEPT !.pc = "goto"]
        ELSE BeginObserve(g)

\* NeoInteractiveWorker.interact after the session is resolved; the navigation
\* is navigateWithRetry, whose first attempt logs before its goto
AfterResolve32(f) ==
    LET g == [f EXCEPT !.target = Normalize(f.site_url)]
    IN  IF g.needsNav /\ g.target # <<>>
        THEN [Log(Log(g, "OPEN"), "OPEN") EXCEPT !.pc = "goto", !.attempt = 1]
        ELSE BeginObserve(g)

\* a variant of AfterResolve that navigates on every call with a URL
AlwaysNavigate(f) ==
    IF ver = "v33" THEN AfterResolve33([f EXCEPT !.needsNav = TRUE])
                   ELSE AfterResolve32([f EXCEPT !.needsNav = TRUE])

\* interact after the session is resolved, for the worker class of this run
AfterResolve(f) == IF ver = "v33" THEN AfterResolve33(f) ELSE AfterResolve32(f)

\* the liveness probe page.evaluate(() => true) resolved
ProbeOk(r) ==
    LET f == req[r] IN
    /\ f.pc = "probe"
    /\ "ok" \in Outcomes(f.page)
    /\ SetReq(r, AfterResolve([f EXCEPT !.probe = "ok"]))
    /\ UNCHANGED <<beyond, ver, urlCanThrow, browser, context, isReady, startPc, sessions, sessUrl,
                   pageStatus, pageUrl, nextPage, shutdownRes, lastClose>>

\* a variant of ProbeFail where the rejection is not caught by the inner try
ProbeFailFatal(r) ==
    LET f == req[r] IN
    /\ f.pc = "probe"
    /\ SetReq(r, Throw([f EXCEPT !.probe = IF pageStatus[f.page] = "dead" THEN "dead"
                                           ELSE "fail"], "probe"))
    /\ UNCHANGED <<beyond, ver, urlCanThrow, browser, context, isReady, startPc, sessions, sessUrl,
                   pageStatus, pageUrl, nextPage, shutdownRes, lastClose>>

\* the liveness probe rejected: log and create another page
ProbeFail(r) ==
    LET f == req[r] IN
    /\ f.pc = "probe"
    /\ SetReq(r, [Log(f, "OPEN") EXCEPT
                     !.pc = "recreate",
                     !.probe = IF pageStatus[f.page] = "dead" THEN "dead" ELSE "fail"])
    /\ UNCHANGED <<beyond, ver, urlCanThrow, browser, context, isReady, startPc, sessions, sessUrl,
                   pageStatus, pageUrl, nextPage, shutdownRes, lastClose>>

\* a variant of RecreateOk that goes on with the page whose probe failed
RecreateKeepsPage(r) ==
    LET f == req[r] IN
    /\ f.pc = "recreate"
    /\ SetReq(r, AfterResolve([f EXCEPT !.needsNav = TRUE]))
    /\ UNCHANGED <<beyond, ver, urlCanThrow, browser, context, isReady, startPc, sessions, sessUrl,
                   pageStatus, pageUrl, nextPage, shutdownRes, lastClose>>

\* context.newPage() resolved after a failed probe: the entry is replaced
RecreateOk(r) ==
    LET f == req[r] IN
    /\ f.pc = "recreate"
    /\ CanCreatePage
    /\ Register(f)
    /\ SetReq(r, AfterResolve([f EXCEPT !.page = nextPage, !.needsNav = TRUE,
                                        !.created = @ + 1]))
    /\ pageStatus' = Sweep([pageStatus EXCEPT ![nextPage] = "open"])
    /\ pageUrl' = [p \in Pages |-> IF p = nextPage \/ ~Referenced(p, sessions', req')
                                   THEN Blank ELSE pageUrl[p]]
    /\ sessUrl' = [p \in Pages |-> IF p = nextPage \/ ~Referenced(p, sessions', req')
                                   THEN <<>> ELSE sessUrl[p]]
    /\ UNCHANGED <<beyond, ver, urlCanThrow, browser, context, isReady, startPc, shutdownRes, lastClose>>

\* ------------------------------------------------------------- navigation
\* where a resolved page.goto(target) leaves the page (redirects are left out)
GotoLands(target) == {target}

\* where a rejected goto leaves page p: unchanged, or, when the page is open,
\* already on the target (the load timed out after the navigation committed)
GotoFailUrls(p, target) ==
    IF pageStatus[p] = "open" THEN {pageUrl[p], target} ELSE {pageUrl[p]}

\* session.url = session.page.url() after the navigation, then the observation
AfterNav(r, g, u) ==
    \E uo \in UrlOutcomes :
       IF uo = "ok"
       THEN SetReq(r, BeginObserve(g)) /\ sessUrl' = [sessUrl EXCEPT ![g.page] = u]
       ELSE SetReq(r, Throw(g, "url")) /\ sessUrl' = sessUrl

\* NeoWorker.interact: page.goto resolved, waitForTimeout(2000) follows
Goto33Ok(r) ==
    LET f == req[r] IN
    /\ ver = "v33" /\ f.pc = "goto"
    /\ "ok" \in Outcomes(f.page)
    /\ \E u \in GotoLands(f.target) : pageUrl' = [pageUrl EXCEPT ![f.page] = u]
    /\ SetReq(r, [f EXCEPT !.pc = "navWait", !.gotos = @ + 1])
    /\ UNCHANGED <<beyond, ver, urlCanThrow, browser, context, isReady, startPc, sessions, sessUrl,
                   pageStatus, nextPage, shutdownRes, lastClose>>

\* a variant of Goto33Fail without the try around the navigation
Goto33FailFatal(r) ==
    LET f == req[r] IN
    /\ ver = "v33" /\ f.pc = "goto"
    /\ SetReq(r, Throw([f EXCEPT !.gotos = @ + 1, !.navFailed = TRUE], "goto"))
    /\ UNCHANGED <<beyond, ver, urlCanThrow, browser, context, isReady, startPc, sessions, sessUrl,
                   pageStatus, pageUrl, nextPage, shutdownRes, lastClose>>

\* NeoWorker.interact: page.goto rejected; log and continue
Goto33Fail(r) ==
    LET f == req[r] IN
    /\ ver = "v33" /\ f.pc = "goto"
    /\ \E u \in GotoFailUrls(f.page, f.target) :
          /\ pageUrl' = [pageUrl EXCEPT ![f.page] = u]
          /\ AfterNav(r, [Log(f, NavError) EXCEPT !.gotos = @ + 1, !.navFailed = TRUE], u)
    /\ UNCHANGED <<beyond, ver, urlCanThrow, browser, context, isReady, startPc, sessions,
                   pageStatus, nextPage, shutdownRes, lastClose>>

\* NeoWorker.interact: the wait after goto settled (a rejection is logged)
NavWait33(r) ==
    LET f == req[r] IN
    /\ ver = "v33" /\ f.pc = "navWait"
    /\ \E o \in Outcomes(f.page) :
          AfterNav(r, IF o = "ok" THEN f ELSE [Log(f, NavError) EXCEPT !.navFailed = TRUE],
                   pageUrl[f.page])
    /\ UNCHANGED <<beyond, ver, urlCanThrow, browser, context, isReady, startPc, sessions,
                   pageStatus, pageUrl, nextPage, shutdownRes, lastClose>>

\* ------------------------------------------------- v3.3 observe, act, compose
\* NeoWorker.interact: return { success: true, message, observation, action_taken, logs }
Compose33(f) ==
    LET g == Log(f, "RESULT")
    IN  [g EXCEPT !.pc = "done",
                  !.result = [returned |-> TRUE, success |-> TRUE,
                              message |-> buildMessage33(f.actions, f.obs),
                              hasObs |-> TRUE, obs |-> f.obs, action_taken |-> f.actions,
                              logs |-> g.logs]]

\* NeoInteractiveWorker.buildMessage: the parts of the message, in order
buildMessage32(actionTaken, observation) ==
    (IF actionTaken # <<>> THEN <<"action">> ELSE <<>>)
    \o <<"title">>
    \o (IF Len(observation.buttons) > 0 THEN <<"buttons">> ELSE <<>>)
    \o (IF Len(SelectSeq(observation.inputs, LAMBDA i : i.value = "")) > 0
        THEN <<"inputs">> ELSE <<>>)
    \o (IF Len(observation.prices) > 0 THEN <<"prices">> ELSE <<>>)

\* NeoInteractiveWorker.interact: return { success: true, ... }
Compose32(f) ==
    LET g == Log(f, "RESULT")
    IN  [g EXCEPT !.pc = "done",
                  !.result = [returned |-> TRUE, success |-> TRUE,
                              message |-> buildMessage32(f.actions, f.obs),
                              hasObs |-> TRUE, obs |-> f.obs, action_taken |-> f.actions,
                              logs |-> g.logs]]

\* the result of a call that reached the end of the try block
Compose(f) == IF ver = "v33" THEN Compose33(f) ELSE Compose32(f)

\* the synchronous tail of interact: session.url = session.page.url(), build
\* the message, log it and return.  g.pc = "compose" asks for that tail.
Continue(r, g) ==
    IF g.pc = "compose"
    THEN \E uo \in UrlOutcomes :
            IF uo = "ok"
            THEN SetReq(r, Compose(g)) /\ sessUrl' = [sessUrl EXCEPT ![g.page] = pageUrl[g.page]]
            ELSE SetReq(r, Throw(g, "url")) /\ sessUrl' = sessUrl
    ELSE SetReq(r, g) /\ sessUrl' = sessUrl

\* NeoWorker.interact: re-observe after actions, else compose
Finalize33(f) ==
    IF Len(f.actions) > 0 THEN [f EXCEPT !.pc = "reobserve"] ELSE [f EXCEPT !.pc = "compose"]

\* the first booking step after step n (1 check-in, 2 check-out, 3 guests),
\* then the search click, which the branch always reaches
BookingPc(b, n) ==
    IF n < 1 /\ b.check_in # "" THEN "fillIn"
    ELSE IF n < 2 /\ b.check_out # "" THEN "fillOut"
    ELSE IF n < 3 /\ b.guests # 0 THEN "fillGuests"
    ELSE "search"

\* The frame at the booking step that follows step n.  When that step is the
\* search click the fills are over: booking_data is not read again, and the
\* record of the latest fill and of the message's intent are dropped.
BookingStep(f, n) ==
    IF BookingPc(f.booking, n) = "search"
    THEN [f EXCEPT !.pc = "search", !.booking = NoBooking, !.intent = FALSE,
                   !.lastFill = [selector |-> "", attempt |-> 0]]
    ELSE [f EXCEPT !.pc = BookingPc(f.booking, n)]

\* Once the action is selected, the message, the requested URL and the
\* navigation flag are not read again: they leave the frame.
Selected(f) ==
    [f EXCEPT !.site_url = <<>>, !.target = <<>>, !.needsNav = FALSE, !.attempt = 0,
              !.msg = <<>>]

\* NeoWorker.interact after the first observation: branch selection
AfterObserve33(f) ==
    LET g == Selected(Log(Log(f, "OBSERVE"), "MATCH"))
    IN  IF isBookingRequest(f.msg, f.booking) /\ f.booking.present
        THEN BookingStep([Log(g, "ACT") EXCEPT !.intent = BookingIntent(f.msg)], 0)
        ELSE LET d == decideAction33(f.msg, f.obs)
                 h == [Log(g, "MATCH") EXCEPT !.decision = d]
             IN  IF d.action = "click" /\ d.target # ""
                 THEN [h EXCEPT !.pc = "click"]
                 ELSE Finalize33(h)

\* NeoWorker.interact: observeDOM resolved
Observe33Ok(r) ==
    LET f == req[r] IN
    /\ ver = "v33" /\ f.pc = "observe"
    /\ "ok" \in Outcomes(f.page)
    /\ \E d \in Doms, q \in Requests :
          Continue(r, AfterObserve33([f EXCEPT !.obs = Scan(d, pageUrl[f.page]),
                                               !.msg = q.msg, !.booking = q.booking]))
    /\ UNCHANGED <<beyond, ver, urlCanThrow, browser, context, isReady, startPc, sessions,
                   pageStatus, pageUrl, nextPage, shutdownRes, lastClose>>

\* NeoWorker.interact: observeDOM rejected; the call is not guarded
Observe33Fail(r) ==
    LET f == req[r] IN
    /\ ver = "v33" /\ f.pc = "observe"
    /\ SetReq(r, Throw([f EXCEPT !.obsFailed = TRUE], "observe"))
    /\ UNCHANGED <<beyond, ver, urlCanThrow, browser, context, isReady, startPc, sessions, sessUrl,
                   pageStatus, pageUrl, nextPage, shutdownRes, lastClose>>

\* ------------------------------------------------------ v3.3 booking helpers
\* `${input.name} ${input.placeholder} ${input.label || ""}`.toLowerCase() includes a keyword
InText(kws, input) ==
    (Parts(Lower(input.name)) \cup Parts(Lower(input.placeholder))
       \cup Parts(Lower(input.label))) \cap kws # {}

CheckInKeywords == {"check-in", "checkin", "check_in", "arrival", "from", "start",
                    "nastanyavane", "ot", "pristigane"}
CheckOutKeywords == {"check-out", "checkout", "check_out", "departure", "to", "end",
                     "napuskane", "do", "zaminavane"}
GuestsKeywords == {"guests", "adults", "gosti", "vazrastni", "choveka", "persons", "pax"}

\* a variant of DateIndex that sends both dates to the first date input
DateIndexFirst(type) == 1

\* const idx = type === "check_in" ? 0 : 1, as a position counted from 1
DateIndex(type) == IF type = "check_in" THEN 1 ELSE 2

\* NeoWorker.fillDateInput: the selectors it passes to page.fill, in order
fillDateInput(type, obs) ==
    LET kws == IF type = "check_in" THEN CheckInKeywords ELSE CheckOutKeywords
        m == FindIndex({k \in DOMAIN obs.inputs :
            obs.inputs[k].type \in {"date", "text"} /\ InText(kws, obs.inputs[k])})
        dateInputs == SelectSeq(obs.inputs, LAMBDA i : i.type = "date")
        idx == DateIndex(type)
    IN  (IF m # 0 THEN <<obs.inputs[m].selector>> ELSE <<>>)
        \o (IF Len(dateInputs) >= idx THEN <<dateInputs[idx].selector>> ELSE <<>>)
        \o (IF type = "check_in"
            THEN <<"[name*=checkin i]", "[id*=checkin i]", "[placeholder*=check-in i]",
                   "input[type=date]:first-of-type">>
            ELSE <<"[name*=checkout i]", "[id*=checkout i]", "[placeholder*=check-out i]",
                   "input[type=date]:last-of-type">>)

\* NeoWorker.fillGuestsInput: the selectors it fills or selects, in order
fillGuestsInput(obs) ==
    LET m == FindIndex({k \in DOMAIN obs.inputs :
            InText(GuestsKeywords, obs.inputs[k])})
    IN  (IF m # 0 THEN <<obs.inputs[m].selector>> ELSE <<>>)
        \o <<"[name*=guest i]", "[name*=adult i]", "[id*=guest i]", "[id*=adult i]",
             "select[name*=guest i]", "select[name*=adult i]">>

SearchKeywords == <<"search", "check", "find", "book", "reserve", "submit",
                    "tarsi", "proveri", "nalichnost", "rezerviraj", "zapazi", "pokazhi">>

\* NeoWorker.clickSearchButton: the clicks it attempts, in order
clickSearchButton(obs) ==
    LET kws == {SearchKeywords[i] : i \in 1..Len(SearchKeywords)}
        m == FindIndex({k \in DOMAIN obs.buttons :
            \E i \in 1..Len(obs.buttons[k].text) :
               Parts(Lower(obs.buttons[k].text[i])) \cap kws # {}})
    IN  (IF m # 0 THEN <<[by |-> "selector", arg |-> obs.buttons[m].selector]>> ELSE <<>>)
        \o [i \in 1..(2 * Len(SearchKeywords)) |->
              IF i % 2 = 1 THEN [by |-> "button:has-text", arg |-> SearchKeywords[(i + 1) \div 2]]
                           ELSE [by |-> "a:has-text", arg |-> SearchKeywords[i \div 2]]]
        \o <<[by |-> "selector", arg |-> "form [type=submit]"]>>

\* NeoWorker.tryClick: the selectors it clicks, in order
tryClick33(target) ==
    <<[by |-> "selector", arg |-> target], [by |-> "text=", arg |-> target],
      [by |-> "button:has-text", arg |-> target], [by |-> "a:has-text", arg |-> target]>>

\* The attempts of a fallback chain run in order and each may fail; the
\* chain performs its action iff one of them succeeds.  Nothing succeeds on a
\* page that is not open.
Performed(p, attempts) ==
    IF pageStatus[p] = "open" THEN {k > 0 : k \in 0..Len(attempts)} ELSE {FALSE}

\* The attempts of a chain run in order until one succeeds: the index of that
\* attempt, 0 when all of them fail.
Hit(p, attempts) == IF pageStatus[p] = "open" THEN 0..Len(attempts) ELSE {0}

NoFill == [selector |-> "", attempt |-> 0]

\* actions.push and log after a booking fill that succeeded with attempt k
Filled(f, step, attempts, k) ==
    IF k > 0
    THEN Log([f EXCEPT !.actions = Append(@, step),
                       !.lastFill = [selector |-> attempts[k], attempt |-> k]], "ACT")
    ELSE [f EXCEPT !.lastFill = NoFill]

\* ------------------------------------------------------------- v3.3 actions
\* booking step 1: fillDateInput(check_in)
FillCheckIn33(r) ==
    LET f == req[r] IN
    /\ ver = "v33" /\ f.pc = "fillIn"
    /\ \E k \in Hit(f.page, fillDateInput("check_in", f.obs)) :
          SetReq(r, BookingStep(Filled(f, "checkin", fillDateInput("check_in", f.obs), k), 1))
    /\ UNCHANGED <<beyond, ver, urlCanThrow, browser, context, isReady, startPc, sessions, sessUrl,
                   pageStatus, pageUrl, nextPage, shutdownRes, lastClose>>

\* booking step 2: fillDateInput(check_out)
FillCheckOut33(r) ==
    LET f == req[r] IN
    /\ ver = "v33" /\ f.pc = "fillOut"
    /\ \E k \in Hit(f.page, fillDateInput("check_out", f.obs)) :
          SetReq(r, BookingStep(Filled(f, "checkout", fillDateInput("check_out", f.obs), k), 2))
    /\ UNCHANGED <<beyond, ver, urlCanThrow, browser, context, isReady, startPc, sessions, sessUrl,
                   pageStatus, pageUrl, nextPage, shutdownRes, lastClose>>

\* booking step 3: fillGuestsInput
FillGuests33(r) ==
    LET f == req[r] IN
    /\ ver = "v33" /\ f.pc = "fillGuests"
    /\ \E k \in Hit(f.page, fillGuestsInput(f.obs)) :
          SetReq(r, BookingStep(Filled(f, "guests", fillGuestsInput(f.obs), k), 3))
    /\ UNCHANGED <<beyond, ver, urlCanThrow, browser, context, isReady, startPc, sessions, sessUrl,
                   pageStatus, pageUrl, nextPage, shutdownRes, lastClose>>

\* booking step 4: clickSearchButton; a click is followed by waitForTimeout(2000)
ClickSearch33(r) ==
    LET f == req[r] IN
    /\ ver = "v33" /\ f.pc = "search"
    /\ \E done \in Performed(f.page, clickSearchButton(f.obs)) :
          IF done
          THEN /\ pageUrl' = pageUrl
               /\ SetReq(r, [Log([f EXCEPT !.actions = Append(@, "search")], "ACT")
                               EXCEPT !.pc = "searchWait"])
               /\ sessUrl' = sessUrl
          ELSE /\ pageUrl' = pageUrl
               /\ Continue(r, Finalize33(f))
    /\ UNCHANGED <<beyond, ver, urlCanThrow, browser, context, isReady, startPc, sessions,
                   pageStatus, nextPage, shutdownRes, lastClose>>

\* the wait after the search click settled
SearchWait33(r) ==
    LET f == req[r] IN
    /\ ver = "v33" /\ f.pc = "searchWait"
    /\ \E o \in Outcomes(f.page) :
          IF o = "ok" THEN Continue(r, Finalize33(f))
                      ELSE SetReq(r, Throw(f, "wait")) /\ sessUrl' = sessUrl
    /\ UNCHANGED <<beyond, ver, urlCanThrow, browser, context, isReady, startPc, sessions,
                   pageStatus, pageUrl, nextPage, shutdownRes, lastClose>>

\* non-booking branch: tryClick(decision.target); a click is followed by
\* waitForTimeout(1500)
Click33(r) ==
    LET f == req[r] IN
    /\ ver = "v33" /\ f.pc = "click"
    /\ \E done \in Performed(f.page, tryClick33(f.decision.target)) :
          IF done
          THEN /\ pageUrl' = pageUrl
               /\ SetReq(r, [f EXCEPT !.actions = Append(@, "click"), !.pc = "clickWait"])
               /\ sessUrl' = sessUrl
          ELSE /\ pageUrl' = pageUrl
               /\ Continue(r, Finalize33([f EXCEPT !.unrealized = TRUE]))
    /\ UNCHANGED <<beyond, ver, urlCanThrow, browser, context, isReady, startPc, sessions,
                   pageStatus, nextPage, shutdownRes, lastClose>>

\* the wait after the click settled
ClickWait33(r) ==
    LET f == req[r] IN
    /\ ver = "v33" /\ f.pc = "clickWait"
    /\ \E o \in Outcomes(f.page) :
          IF o = "ok" THEN Continue(r, Finalize33(f))
                      ELSE SetReq(r, Throw(f, "wait")) /\ sessUrl' = sessUrl
    /\ UNCHANGED <<beyond, ver, urlCanThrow, browser, context, isReady, startPc, sessions,
                   pageStatus, pageUrl, nextPage, shutdownRes, lastClose>>

\* the observation after the actions resolved: compose and return
Reobserve33Ok(r) ==
    LET f == req[r] IN
    /\ ver = "v33" /\ f.pc = "reobserve"
    /\ "ok" \in Outcomes(f.page)
    /\ \E d \in Doms :
          Continue(r, [f EXCEPT !.obs = Scan(d, pageUrl[f.page]),
                                      !.obsAfter = Len(f.actions), !.pc = "compose"])
    /\ UNCHANGED <<beyond, ver, urlCanThrow, browser, context, isReady, startPc, sessions,
                   pageStatus, pageUrl, nextPage, shutdownRes, lastClose>>

\* the observation after the actions rejected; the call is not guarded
Reobserve33Fail(r) ==
    LET f == req[r] IN
    /\ ver = "v33" /\ f.pc = "reobserve"
    /\ SetReq(r, Throw(f, "reobserve"))
    /\ UNCHANGED <<beyond, ver, urlCanThrow, browser, context, isReady, startPc, sessions, sessUrl,
                   pageStatus, pageUrl, nextPage, shutdownRes, lastClose>>

\* --------------------------------------------------- v3.2 navigateWithRetry
\* what one attempt of navigateWithRetry met: whether it succeeded (goto and
\* the settle wait resolved) and whether the page was still blank afterwards
Attempt(ok, u) == [ok |-> ok, blank |-> (u = <<>> \/ u = Blank)]

\* NeoInteractiveWorker.interact after navigateWithRetry returned ok
AfterNav32(r, f, ok, u) ==
    LET g == [f EXCEPT !.navRet = IF ok THEN "true" ELSE "false", !.navFailed = ~ok]
    IN  AfterNav(r, IF ok THEN g ELSE Log(g, NavFailed), u)

\* a variant of NavCatch32 that gives up after the first failed attempt
NavCatchNoRetry(r, f, u) == AfterNav32(r, Log(f, NavAttemptError), FALSE, u)

\* a variant of NavCatch32 that starts the attempts over
NavCatchRestart(r, f, u) ==
    SetReq(r, [f EXCEPT !.pc = "goto", !.attempt = 1, !.gotos = 0, !.navTrace = <<>>])
    /\ sessUrl' = sessUrl

\* the catch block of one attempt: log, return true when the page left
\* about:blank, wait before the next attempt, return false after the last
NavCatch32(r, f, u) ==
    LET g == Log(f, NavAttemptError)
    IN  \E uo \in UrlOutcomes :
           IF uo = "ok" /\ u # <<>> /\ u # Blank
           THEN AfterNav32(r, Log(g, "OPEN"), TRUE, u)
           ELSE IF g.attempt < NAV_RETRIES
           THEN SetReq(r, [g EXCEPT !.pc = "retryWait"]) /\ sessUrl' = sessUrl
           ELSE AfterNav32(r, g, FALSE, u)

\* navigateWithRetry: page.goto resolved, waitForTimeout(1500) follows
Goto32Ok(r) ==
    LET f == req[r] IN
    /\ ver = "v32" /\ f.pc = "goto"
    /\ "ok" \in Outcomes(f.page)
    /\ \E u \in GotoLands(f.target) : pageUrl' = [pageUrl EXCEPT ![f.page] = u]
    /\ SetReq(r, [f EXCEPT !.pc = "navWait", !.gotos = @ + 1])
    /\ UNCHANGED <<beyond, ver, urlCanThrow, browser, context, isReady, startPc, sessions, sessUrl,
                   pageStatus, nextPage, shutdownRes, lastClose>>

\* navigateWithRetry: page.goto rejected
Goto32Fail(r) ==
    LET f == req[r] IN
    /\ ver = "v32" /\ f.pc = "goto"
    /\ \E u \in GotoFailUrls(f.page, f.target) :
          /\ pageUrl' = [pageUrl EXCEPT ![f.page] = u]
          /\ NavCatch32(r, [f EXCEPT !.gotos = @ + 1,
                                     !.navTrace = Append(@, Attempt(FALSE, u))], u)
    /\ UNCHANGED <<beyond, ver, urlCanThrow, browser, context, isReady, startPc, sessions,
                   pageStatus, nextPage, shutdownRes, lastClose>>

\* navigateWithRetry: the wait after a resolved goto settled; a rejection is
\* handled by the attempt's catch block like a rejected goto
NavWait32(r) ==
    LET f == req[r]
        g(ok) == [f EXCEPT !.navTrace = Append(@, Attempt(ok, pageUrl[f.page]))]
    IN
    /\ ver = "v32" /\ f.pc = "navWait"
    /\ \E o \in Outcomes(f.page) :
          IF o = "ok" THEN AfterNav32(r, Log(g(TRUE), "OPEN"), TRUE, pageUrl[f.page])
                      ELSE NavCatch32(r, g(FALSE), pageUrl[f.page])
    /\ UNCHANGED <<beyond, ver, urlCanThrow, browser, context, isReady, startPc, sessions,
                   pageStatus, pageUrl, nextPage, shutdownRes, lastClose>>

\* navigateWithRetry: the wait between two attempts settled; it is awaited
\* inside the catch block, so its rejection leaves navigateWithRetry
RetryWait32(r) ==
    LET f == req[r] IN
    /\ ver = "v32" /\ f.pc = "retryWait"
    /\ \E o \in Outcomes(f.page) :
          IF o = "ok"
          THEN SetReq(r, [Log(f, "OPEN") EXCEPT !.pc = "goto", !.attempt = @ + 1])
          ELSE SetReq(r, Throw(f, "wait"))
    /\ UNCHANGED <<beyond, ver, urlCanThrow, browser, context, isReady, startPc, sessions, sessUrl,
                   pageStatus, pageUrl, nextPage, shutdownRes, lastClose>>

\* ------------------------------------------------- v3.2 decision and message
\* String.prototype.match for the e-mail and the date pattern: the first
\* token of the message that holds a match, "" when there is none
FirstMatch(kind, msg) ==
    LET i == FindIndex({k \in DOMAIN msg :
            kind \in Parts(msg[k])}) IN IF i = 0 THEN "" ELSE msg[i]

ClickOn(btn) == Decision("click", btn.selector, "", btn.text)

\* NeoInteractiveWorker.decideAction: the cascade e-mail fill, date fill,
\* booking click, availability click, rooms click, submit click, scroll, none
decideAction32(userMessage, observation) ==
    LET msg == ToLowerCase(userMessage)
        emailMatch == FirstMatch("@email", userMessage)
        dateMatch == FirstMatch("@date", userMessage)
        emailInput == FindIndex({k \in DOMAIN observation.inputs :
            \/ observation.inputs[k].type = "email"
            \/ TestI({"email", "imeil"}, <<observation.inputs[k].name>>)
            \/ TestI({"email", "imeil"}, <<observation.inputs[k].placeholder>>)})
        dateInput == FindIndex({k \in DOMAIN observation.inputs :
            \/ observation.inputs[k].type = "date"
            \/ TestI({"date", "data", "check"}, <<observation.inputs[k].name>>)})
        bookAlts == {"rezerv", "book", "reserve", "zapazi"}
        bookBtn == FindIndex({k \in DOMAIN observation.buttons :
            TestI(bookAlts, observation.buttons[k].text)})
        availMsg == {"nalichnost", "nalichni", "svobodni", "availability", "check", "proveri"}
        availBtn == FindIndex({k \in DOMAIN observation.buttons :
            TestI(availMsg \cup {"tarsi", "search"}, observation.buttons[k].text)})
        roomAlts == {"stai", "rooms", "nastanyavane", "accommodation"}
        roomBtn == FindIndex({k \in DOMAIN observation.buttons :
            TestI(roomAlts, observation.buttons[k].text)})
        sendAlts == {"izprati", "submit", "potvardi", "send"}
        sendBtn == FindIndex({k \in DOMAIN observation.buttons :
            TestI(sendAlts, observation.buttons[k].text)})
    IN  IF emailMatch # "" /\ emailInput # 0
        THEN Decision("fill", observation.inputs[emailInput].selector, emailMatch, <<"email">>)
        ELSE IF dateMatch # "" /\ dateInput # 0
        THEN Decision("fill", observation.inputs[dateInput].selector, dateMatch, <<"date">>)
        ELSE IF TestI(bookAlts, msg) /\ bookBtn # 0 THEN ClickOn(observation.buttons[bookBtn])
        ELSE IF TestI(availMsg, msg) /\ availBtn # 0 THEN ClickOn(observation.buttons[availBtn])
        ELSE IF TestI(roomAlts, msg) /\ roomBtn # 0 THEN ClickOn(observation.buttons[roomBtn])
        ELSE IF TestI(sendAlts, msg) /\ sendBtn # 0 THEN ClickOn(observation.buttons[sendBtn])
        ELSE IF TestI({"nadolu", "poveche", "scroll", "more"}, msg)
        THEN Decision("scroll", "", "", <<"scroll">>)
        ELSE Decision("none", "", "", <<"Nablyudenie">>)

\* a variant of tryClick32 that tries the exact text before the raw selector
tryClick32TextFirst(target) ==
    <<[by |-> "text=", arg |-> target], [by |-> "selector", arg |-> target],
      [by |-> "button:has-text", arg |-> target], [by |-> "a:has-text", arg |-> target]>>

\* NeoInteractiveWorker.tryClick: the selectors it clicks, in order
tryClick32(target) ==
    <<[by |-> "selector", arg |-> target], [by |-> "text=", arg |-> target],
      [by |-> "button:has-text", arg |-> target], [by |-> "a:has-text", arg |-> target]>>

\* NeoInteractiveWorker.tryFill: the selectors it fills, in order
tryFill32(target) ==
    <<[by |-> "selector", arg |-> target], [by |-> "#id", arg |-> target],
      [by |-> "[name=]", arg |-> target], [by |-> "[placeholder*= i]", arg |-> target]>>

\* ------------------------------------------------- v3.2 observe, act, compose
\* the snapshot substituted when observeDOM throws
FallbackObs(f) ==
    [url |-> IF sessUrl[f.page] # <<>> THEN sessUrl[f.page] ELSE f.target,
     title |-> "Stranitsa", buttons |-> <<>>, inputs |-> <<>>, prices |-> <<>>,
     avail |-> FALSE, kind |-> "fallback"]

\* a variant of Finalize32 that scans again whether or not an action was taken
AlwaysReobserve(f) == [f EXCEPT !.pc = "reobserve"]

\* NeoInteractiveWorker.interact: re-observe when an action was taken
Finalize32(f) ==
    IF f.actions # <<>> THEN [f EXCEPT !.pc = "reobserve"] ELSE [f EXCEPT !.pc = "compose"]

\* NeoInteractiveWorker.interact: decide and dispatch the action
AfterObserve32(f) ==
    LET d == decideAction32(f.msg, f.obs)
        g == [Selected(Log(Log(f, "MATCH"), "MATCH")) EXCEPT !.decision = d]
    IN  IF d.action = "click" /\ d.target # "" THEN [Log(g, "ACT") EXCEPT !.pc = "click"]
        ELSE IF d.action = "fill" /\ d.target # "" /\ d.value # ""
        THEN [Log(g, "ACT") EXCEPT !.pc = "fill"]
        ELSE IF d.action = "scroll" THEN [Log(g, "ACT") EXCEPT !.pc = "scroll"]
        ELSE Finalize32(g)

\* observeDOM resolved
Observe32Ok(r) ==
    LET f == req[r] IN
    /\ ver = "v32" /\ f.pc = "observe"
    /\ "ok" \in Outcomes(f.page)
    /\ \E d \in Doms, m \in Messages :
          Continue(r, AfterObserve32(Log([f EXCEPT !.obs = Scan(d, pageUrl[f.page]),
                                                   !.msg = m], "OBSERVE")))
    /\ UNCHANGED <<beyond, ver, urlCanThrow, browser, context, isReady, startPc, sessions,
                   pageStatus, pageUrl, nextPage, shutdownRes, lastClose>>

\* observeDOM rejected: log and go on with the fallback snapshot
Observe32Fail(r) ==
    LET f == req[r] IN
    /\ ver = "v32" /\ f.pc = "observe"
    /\ \E m \in Messages :
          Continue(r, AfterObserve32(Log([f EXCEPT !.obs = FallbackObs(f), !.obsFailed = TRUE,
                                                   !.msg = m], "OBSERVE")))
    /\ UNCHANGED <<beyond, ver, urlCanThrow, browser, context, isReady, startPc, sessions,
                   pageStatus, pageUrl, nextPage, shutdownRes, lastClose>>

\* tryClick(decision.target); a click is followed by waitForTimeout(1500)
Click32(r) ==
    LET f == req[r] IN
    /\ ver = "v32" /\ f.pc = "click"
    /\ \E done \in Performed(f.page, tryClick32(f.decision.target)) :
          IF done
          THEN /\ pageUrl' = pageUrl
               /\ SetReq(r, [Log([f EXCEPT !.actions = <<"click">>], "ACT")
                               EXCEPT !.pc = "clickWait"])
               /\ sessUrl' = sessUrl
          ELSE /\ pageUrl' = pageUrl
               /\ Continue(r, Finalize32([f EXCEPT !.unrealized = TRUE]))
    /\ UNCHANGED <<beyond, ver, urlCanThrow, browser, context, isReady, startPc, sessions,
                   pageStatus, nextPage, shutdownRes, lastClose>>

\* the wait after the click settled
ClickWait32(r) ==
    LET f == req[r] IN
    /\ ver = "v32" /\ f.pc = "clickWait"
    /\ \E o \in Outcomes(f.page) :
          IF o = "ok" THEN Continue(r, Finalize32(f))
                      ELSE SetReq(r, Throw(f, "wait")) /\ sessUrl' = sessUrl
    /\ UNCHANGED <<beyond, ver, urlCanThrow, browser, context, isReady, startPc, sessions,
                   pageStatus, pageUrl, nextPage, shutdownRes, lastClose>>

\* tryFill(decision.target, decision.value)
Fill32(r) ==
    LET f == req[r] IN
    /\ ver = "v32" /\ f.pc = "fill"
    /\ \E done \in Performed(f.page, tryFill32(f.decision.target)) :
          Continue(r, Finalize32(IF done THEN Log([f EXCEPT !.actions = <<"fill">>], "ACT")
                                          ELSE [f EXCEPT !.unrealized = TRUE]))
    /\ UNCHANGED <<beyond, ver, urlCanThrow, browser, context, isReady, startPc, sessions,
                   pageStatus, pageUrl, nextPage, shutdownRes, lastClose>>

\* page.evaluate(() => window.scrollBy(0, 400)); the call is not guarded
Scroll32(r) ==
    LET f == req[r] IN
    /\ ver = "v32" /\ f.pc = "scroll"
    /\ \E o \in Outcomes(f.page) :
          IF o = "ok" THEN Continue(r, Finalize32([f EXCEPT !.actions = <<"scroll">>]))
                      ELSE SetReq(r, Throw(f, "scroll")) /\ sessUrl' = sessUrl
    /\ UNCHANGED <<beyond, ver, urlCanThrow, browser, context, isReady, startPc, sessions,
                   pageStatus, pageUrl, nextPage, shutdownRes, lastClose>>

\* the observation after the action settled; a rejection keeps the first one
Reobserve32(r) ==
    LET f == req[r] IN
    /\ ver = "v32" /\ f.pc = "reobserve"
    /\ \/ /\ "ok" \in Outcomes(f.page)
          /\ \E d \in Doms :
                Continue(r, [f EXCEPT !.obs = Scan(d, pageUrl[f.page]),
                                      !.obsAfter = Len(f.actions), !.pc = "compose"])
       \/ Continue(r, [f EXCEPT !.pc = "compose"])
    /\ UNCHANGED <<beyond, ver, urlCanThrow, browser, context, isReady, startPc, sessions,
                   pageStatus, pageUrl, nextPage, shutdownRes, lastClose>>

\* ------------------------------------------------------------------ cleanup
\* closeSession(id): close the page of the entry, delete the entry
CloseSession(id) ==
    /\ Running /\ AllIdle
    /\ UNCHANGED <<beyond, ver, urlCanThrow, browser, context, isReady, startPc, nextPage,
                   shutdownRes, req>>
    /\ lastClose' = [id |-> id, page |-> sessions[id]]
    /\ IF sessions[id] # NoPage
       THEN /\ sessions' = Delete(sessions, id)
            /\ \E st \in CloseResults(sessions[id]) :
                  pageStatus' = Sweep([pageStatus EXCEPT ![sessions[id]] = st])
       ELSE UNCHANGED <<pageStatus, sessions>>
    /\ Forget

\* shutdown(): close every session's page, clear the map, close the browser;
\* browser.close() is awaited without a guard
Shutdown ==
    /\ AllIdle
    /\ \E st \in [Pages -> {"open", "dead", "closed", "none"}], ok \in BOOLEAN :
          /\ \A p \in Pages :
                IF \E s \in SessionIds : sessions[s] = p
                THEN st[p] \in CloseResults(p)
                ELSE st[p] = pageStatus[p]
          /\ sessions' = [s \in SessionIds |-> NoPage]
          /\ req' = req
          /\ IF browser = "null"
             THEN pageStatus' = Sweep(st) /\ browser' = browser /\ shutdownRes' = "ok"
             ELSE IF ok
             THEN /\ pageStatus' = [p \in Pages |-> IF st[p] \in {"open", "dead"} THEN "closed"
                                                    ELSE st[p]]
                  /\ browser' = "down"
                  /\ shutdownRes' = "ok"
             ELSE pageStatus' = Sweep(st) /\ browser' = browser /\ shutdownRes' = "threw"
    /\ lastClose' = NoClose
    /\ UNCHANGED <<beyond, ver, urlCanThrow, context, isReady, startPc, nextPage>>
    /\ Forget

\* the caller takes the result
Return(r) ==
    /\ req[r].pc = "done"
    /\ SetReq(r, IdleFrame)
    /\ UNCHANGED <<beyond, ver, urlCanThrow, browser, context, isReady, startPc, sessions,
                   nextPage, shutdownRes, lastClose>>
    /\ pageStatus' = Sweep(pageStatus)
    /\ Forget

\* ------------------------------------------------------------ specification
Interact(r) ==
    \/ Call(r) \/ Return(r) \/ NewPageOk(r) \/ NewPageFail(r) \/ ProbeOk(r) \/ ProbeFail(r)
    \/ RecreateOk(r) \/ CatchClose(r)
    \/ Goto33Ok(r) \/ Goto33Fail(r) \/ NavWait33(r) \/ Observe33Ok(r) \/ Observe33Fail(r)
    \/ FillCheckIn33(r) \/ FillCheckOut33(r) \/ FillGuests33(r) \/ ClickSearch33(r)
    \/ SearchWait33(r) \/ Click33(r) \/ ClickWait33(r) \/ Reobserve33Ok(r)
    \/ Reobserve33Fail(r)
    \/ Goto32Ok(r) \/ Goto32Fail(r) \/ NavWait32(r) \/ RetryWait32(r) \/ Observe32Ok(r)
    \/ Observe32Fail(r) \/ Click32(r) \/ ClickWait32(r) \/ Fill32(r) \/ Scroll32(r)
    \/ Reobserve32(r)

Next ==
    \/ StartLaunch
    \/ StartContext
    \/ \E r \in SeqSlots : Interact(r)
    \/ \E p \in Pages : ExternalClose(p)
    \/ \E id \in SessionIds : CloseSession(id)
    \/ Shutdown

Spec == Init /\ [][Next]_vars

SpecFaults == InitFaults /\ [][Next]_vars

\* The event loop resumes a suspended call once the operation it awaits has
\* settled: every browser operation completes or fails.
Resume(r) == req[r].pc \notin {"idle", "done"} /\ Interact(r)

\* one client that issues its calls for session "s1" one after another; any
\* awaited operation may fail
NextLive ==
    \/ StartLaunch
    \/ StartContext
    \/ \E r \in SeqSlots : Interact(r) /\ req'[r].sid = "s1"

SpecLive == Init /\ [][NextLive]_vars /\ \A r \in SeqSlots : WF_vars(Resume(r))

\* The action selectors on their own.  A frame at "decide" holds a message and
\* a snapshot; Decide applies the decideAction of the class to them.
DecideMessages ==
    {<<"Please", "close", "this,", "my", "email", "is", "a@b.com">>,
     <<"rezerviraj">>, <<"REZERVIRAJ">>, <<"book", "c@d.org", "a@b.com">>,
     <<"a@b.com">>, <<"rooms", "12.05">>, <<"scroll">>, <<"hello">>}

ModalDom ==
    [EmptyDom EXCEPT !.buttons = <<Btn(<<"Close">>, ".close")>>,
                     !.inputs = <<Inp("email", "mail", "", "#mail")>>]
FormDom ==
    [EmptyDom EXCEPT !.buttons = <<Btn(<<"Book">>, "#b1"), Btn(<<"Rezerviraj">>, ".btn")>>,
                     !.inputs = <<Inp("text", "phone", "", "#phone"),
                                  Inp("text", "user_email", "", "#ue"),
                                  Inp("email", "", "", "#e2")>>]
PlaceholderDom ==
    [EmptyDom EXCEPT !.buttons = <<Btn(<<"Rooms">>, "#rooms")>>,
                     !.inputs = <<Inp("text", "x", "Email", "#p"), Inp("date", "d1", "", ".date")>>]
ButtonsDom ==
    [EmptyDom EXCEPT !.buttons = <<Btn(<<"Rooms">>, "#rooms"), Btn(<<"REZERVIRAJ">>, "#r"),
                                   Btn(<<"Book">>, "#b1")>>]
PhoneDom == [EmptyDom EXCEPT !.inputs = <<Inp("text", "phone", "", "#phone")>>]

DecideDoms == {EmptyDom, HotelDom, ModalDom, FormDom, PlaceholderDom, ButtonsDom, PhoneDom}

InitDecide ==
    /\ InitBeyond
    /\ ver \in {"v33", "v32"}
    /\ urlCanThrow = FALSE
    /\ browser = "null"
    /\ context = FALSE
    /\ isReady = FALSE
    /\ startPc = "init"
    /\ sessions = [s \in SessionIds |-> NoPage]
    /\ sessUrl = [p \in Pages |-> <<>>]
    /\ pageStatus = [p \in Pages |-> "none"]
    /\ pageUrl = [p \in Pages |-> Blank]
    /\ nextPage = 1
    /\ shutdownRes = "none"
    /\ lastClose = NoClose
    /\ \E m \in DecideMessages, d \in DecideDoms :
          req = [r \in Slots |->
                   IF r \in SeqSlots
                   THEN [IdleFrame EXCEPT !.pc = "decide", !.msg = m, !.obs = Scan(d, Blank)]
                   ELSE IdleFrame]

\* const decision = this.decideAction(user_message, observation)
Decide(r) ==
    LET f == req[r] IN
    /\ f.pc = "decide"
    /\ SetReq(r, [f EXCEPT !.pc = "decided",
                           !.decision = IF ver = "v33" THEN decideAction33(f.msg, f.obs)
                                        ELSE decideAction32(f.msg, f.obs)])
    /\ UNCHANGED <<beyond, ver, urlCanThrow, browser, context, isReady, startPc, sessions, sessUrl,
                   pageStatus, pageUrl, nextPage, shutdownRes, lastClose>>

NextDecide == \E r \in SeqSlots : Decide(r)

SpecDecide == InitDecide /\ [][NextDecide]_vars

\* The branch selection of NeoWorker.interact and what follows it, for one
\* call on a started worker whose session s1 has an open page.  A frame at
\* "branch" holds the request's message and booking_data and the snapshot of
\* the first observation.
RangeDom ==
    [EmptyDom EXCEPT !.inputs = <<[type |-> "text", name |-> "date_from_to",
                                   placeholder |-> "", selector |-> "#range",
                                   label |-> "", value |-> ""]>>]
OneDateDom ==
    [EmptyDom EXCEPT !.inputs = <<[type |-> "date", name |-> "d1", placeholder |-> "",
                                   selector |-> ".date", label |-> "", value |-> ""]>>]

BranchDoms == Doms \cup {RangeDom, OneDateDom}

BranchRequests == Requests \cup {[msg |-> <<"hello">>, booking |-> GuestsBooking]}

InitBranch ==
    /\ InitBeyond
    /\ ver = "v33"
    /\ urlCanThrow = FALSE
    /\ browser = "up"
    /\ context = TRUE
    /\ isReady = TRUE
    /\ startPc = "done"
    /\ sessions = [s \in SessionIds |-> IF s = "s1" THEN 1 ELSE NoPage]
    /\ sessUrl = [p \in Pages |-> <<>>]
    /\ pageStatus = [p \in Pages |-> IF p = 1 THEN "open" ELSE "none"]
    /\ pageUrl = [p \in Pages |-> Blank]
    /\ nextPage = 2
    /\ shutdownRes = "none"
    /\ lastClose = NoClose
    /\ \E q \in BranchRequests, d \in BranchDoms :
          req = [r \in Slots |->
                   IF r \in SeqSlots
                   THEN [IdleFrame EXCEPT !.pc = "branch", !.page = 1, !.startPage = 1,
                                          !.probe = "ok", !.logs = <<"OPEN", "OBSERVE">>,
                                          !.msg = q.msg, !.booking = q.booking,
                                          !.obs = Scan(d, Blank)]
                   ELSE IdleFrame]

\* the branch selection after the first observation
Branch(r) ==
    LET f == req[r] IN
    /\ f.pc = "branch"
    /\ Continue(r, AfterObserve33(f))
    /\ UNCHANGED <<beyond, ver, urlCanThrow, browser, context, isReady, startPc, sessions,
                   pageStatus, pageUrl, nextPage, shutdownRes, lastClose>>

\* the selection, then the steps of the call up to its result
NextBranch ==
    \/ \E r \in SeqSlots : Branch(r)
    \/ \E r \in SeqSlots : Interact(r) /\ req'[r].pc # "idle"

SpecBranch == InitBranch /\ [][NextBranch]_vars

\* The click and fill executors, one attempt at a time.  ver "v2" is the
\* command worker (NeoWorker of part_001), whose clickElement and fillInput
\* first look the session up.
Sel(by, target) == [by |-> by, arg |-> target]

\* NeoWorker v2 clickElement: the four strategies, in order
clickElement(target) ==
    <<Sel("selector", target), Sel("text=", target), Sel("text=/ /i", target),
      Sel("button:has-text, a:has-text", target)>>

\* NeoWorker v2 fillInput: the selectors of the loop, then the label lookup
fillInput(target) ==
    <<Sel("selector", target), Sel("#id", target), Sel("[name=]", target),
      Sel("[id=]", target), Sel("[placeholder*= i]", target), Sel("[aria-label*= i]", target),
      Sel("input[type=]", target), Sel("textarea[name=]", target),
      Sel("label:has-text", target)>>

\* the executors of each worker class
Executors ==
    CASE ver = "v33" -> {"tryClick33"}
      [] ver = "v32" -> {"tryClick32", "tryFill32"}
      [] OTHER -> {"clickElement", "fillInput"}

\* the strategies of an executor run, in the order the code tries them
Strategies(e) ==
    CASE e.kind = "tryClick33" -> tryClick33(e.target)
      [] e.kind = "tryClick32" -> tryClick32(e.target)
      [] e.kind = "tryFill32" -> tryFill32(e.target)
      [] e.kind = "clickElement" -> clickElement(e.target)
      [] e.kind = "fillInput" -> fillInput(e.target)
      [] OTHER -> <<>>

ExecTargets == {"#b1", "Email"}

InitExec ==
    /\ InitBeyond
    /\ ver \in {"v33", "v32", "v2"}
    /\ urlCanThrow = FALSE
    /\ browser = "up"
    /\ context = TRUE
    /\ isReady = TRUE
    /\ startPc = "done"
    /\ sessions = [s \in SessionIds |-> NoPage]
    /\ sessUrl = [p \in Pages |-> <<>>]
    /\ pageStatus = [p \in Pages |-> "none"]
    /\ pageUrl = [p \in Pages |-> Blank]
    /\ nextPage = 1
    /\ shutdownRes = "none"
    /\ lastClose = NoClose
    /\ \E k \in Executors, t \in ExecTargets, has \in BOOLEAN :
          /\ (ver # "v2") => has
          /\ req = [r \in Slots |->
                      IF r \in SeqSlots
                      THEN [IdleFrame EXCEPT !.pc = "exec",
                               !.exec = [NoExec EXCEPT !.kind = k, !.target = t,
                                                       !.session = has, !.next = 1]]
                      ELSE IdleFrame]

\* one strategy of the executor: the click or fill resolves, or it throws (or
\* finds no element) and the catch swallows it.  Without a session the command
\* worker returns its failure before any strategy.
ExecAttempt(r) ==
    LET f == req[r]
        e == f.exec
        n == Len(Strategies(e))
    IN  /\ f.pc = "exec"
        /\ IF ~e.session
           THEN SetReq(r, [f EXCEPT !.pc = "execDone"])
           ELSE \E ok \in BOOLEAN :
                  LET t == [e EXCEPT !.tried = Append(@, Strategies(e)[e.next])] IN
                  IF ok
                  THEN SetReq(r, [f EXCEPT !.exec = [t EXCEPT !.performed = TRUE],
                                           !.pc = IF e.kind = "clickElement" THEN "execWait"
                                                  ELSE "execDone"])
                  ELSE SetReq(r, [f EXCEPT !.exec = [t EXCEPT !.next = @ + 1],
                                           !.pc = IF e.next = n THEN "execDone" ELSE "exec"])
        /\ UNCHANGED <<beyond, ver, urlCanThrow, browser, context, isReady, startPc, sessions, sessUrl,
                       pageStatus, pageUrl, nextPage, shutdownRes, lastClose>>

\* NeoWorker v2 clickElement after a click: waitForTimeout(1500) and
\* page.url(), neither of them guarded
ExecWait(r) ==
    LET f == req[r] IN
    /\ f.pc = "execWait"
    /\ \E ok \in BOOLEAN :
          SetReq(r, [f EXCEPT !.pc = "execDone", !.exec.raised = ~ok])
    /\ UNCHANGED <<beyond, ver, urlCanThrow, browser, context, isReady, startPc, sessions, sessUrl,
                   pageStatus, pageUrl, nextPage, shutdownRes, lastClose>>

NextExec == \E r \in SeqSlots : ExecAttempt(r) \/ ExecWait(r)

SpecExec == InitExec /\ [][NextExec]_vars

\* --------------------------------------------------------- the in-page scan
\* An element of a page: its tag, id, class tokens, the parent it hangs
\* under, whether isVisible accepts it, and its trimmed text.  A page is the
\* sequence of its elements in document order and the number of price tokens
\* of its body text.
El(tag, id, cls, parent, visible, text) ==
    [tag |-> tag, id |-> id, cls |-> cls, parent |-> parent, visible |-> visible,
     text |-> text]

MaxElems == 27
MaxPrices == 11

\* a long page: n elements of one tag under one parent, every h-th of them
\* hidden and every e-th of them without text (0: none)
LongPage(tag, n, h, e, m) ==
    [els |-> [i \in 1..n |->
                El(tag, "", <<>>, 0, h = 0 \/ i % h # 0,
                   IF e = 0 \/ i % e # 0 THEN "t" ELSE "")],
     prices |-> m]

\* short pages with ids, classes and nesting
IdPage ==
    [els |-> <<El("button", "b1", <<"btn">>, 0, TRUE, "t"), El("button", "b2", <<>>, 0, TRUE, "t"),
               El("input", "q", <<>>, 0, TRUE, "")>>, prices |-> 1]
ClassPage ==
    [els |-> <<El("button", "", <<"btn", "big">>, 0, TRUE, "t"),
               El("button", "", <<"btn">>, 0, TRUE, "t"),
               El("input", "", <<"md:w-1", "field">>, 0, TRUE, "")>>, prices |-> 0]
NestedPage ==
    [els |-> <<El("button", "", <<>>, 1, FALSE, "t"), El("button", "", <<>>, 1, TRUE, "t"),
               El("button", "", <<>>, 2, TRUE, "t"), El("a", "", <<>>, 2, TRUE, "t"),
               El("input", "", <<>>, 2, TRUE, "")>>, prices |-> 2]

ScanPages ==
    {LongPage(tag, n, h, e, m) : tag \in {"button", "input", "a"}, n \in {0, 3, MaxElems},
                                 h \in {0, 3}, e \in {0, 2}, m \in {0, MaxPrices}}
      \cup {IdPage, ClassPage, NestedPage}

\* .slice(0, n)
Take(seq, n) == SubSeq(seq, 1, IF n < Len(seq) THEN n ELSE Len(seq))

\* Array.from(document.querySelectorAll(...)).filter(isVisible): the positions
\* of the visible elements with one of the tags or the class, in document order
Visible(page, tags, cls) ==
    SelectSeq([i \in 1..Len(page.els) |-> i],
              LAMBDA i : /\ page.els[i].visible
                         /\ \/ page.els[i].tag \in tags
                            \/ \E k \in DOMAIN page.els[i].cls : page.els[i].cls[k] = cls)

\* the caps of the slices
ButtonCap == IF ver = "v2" THEN 20 ELSE 25
InputCap == IF ver = "v33" THEN 20 ELSE 15
LinkCap == IF ver = "v2" THEN 10 ELSE 15
PriceCap == IF ver = "v32" THEN 8 ELSE 10

\* cls.includes(":")
HasColon(token) == token \in {"md:w-1"}

\* getSelector(el, index) with rank = index + 1: #id, else the first class
\* token when it has no colon (prefixed with the tag in the command worker),
\* else tag:nth-of-type(rank)
getSelector(el, rank) ==
    IF el.id # "" THEN [by |-> "id", tag |-> "", arg |-> el.id, nth |-> 0]
    ELSE IF el.cls # <<>> /\ ~HasColon(el.cls[1])
    THEN [by |-> "class", tag |-> IF ver = "v2" THEN el.tag ELSE "", arg |-> el.cls[1],
          nth |-> 0]
    ELSE [by |-> "nth-of-type", tag |-> el.tag, arg |-> "", nth |-> rank]

\* a variant of Sliced with the cap raised by one
SlicedWide(page, shown, cap) ==
    LET cut == Take(shown, cap + 1)
    IN  [k \in DOMAIN cut |->
           [el |-> cut[k], text |-> page.els[cut[k]].text,
            selector |-> getSelector(page.els[cut[k]], k)]]

\* .slice(0, cap).map((el, i) => ({text, selector: getSelector(el, i)})): an
\* entry keeps the position of its element
Sliced(page, shown, cap) ==
    LET cut == Take(shown, cap)
    IN  [k \in DOMAIN cut |->
           [el |-> cut[k], text |-> page.els[cut[k]].text,
            selector |-> getSelector(page.els[cut[k]], k)]]

\* the lists of the snapshot; buttons and links drop the entries without text
scanButtons(page) ==
    SelectSeq(Sliced(page, Visible(page, {"button", "a"}, "btn"), ButtonCap),
              LAMBDA b : b.text # "")
scanInputs(page) == Sliced(page, Visible(page, {"input", "textarea", "select"}, ""), InputCap)
scanLinks(page) ==
    IF ver = "v33" THEN <<>>
    ELSE SelectSeq(Sliced(page, Visible(page, {"a"}, ""), LinkCap), LAMBDA l : l.text # "")
scanPrices(page) == Take([i \in 1..page.prices |-> "price"], PriceCap)

\* the rank of element i among the elements of its tag under its parent
NthOfType(page, i) ==
    1 + Cardinality({j \in 1..(i - 1) : /\ page.els[j].tag = page.els[i].tag
                                        /\ page.els[j].parent = page.els[i].parent})

\* the positions of the elements of the page a selector matches
Resolve(page, sel) ==
    {i \in 1..Len(page.els) :
       CASE sel.by = "id" -> page.els[i].id = sel.arg
         [] sel.by = "class" ->
              /\ \E k \in DOMAIN page.els[i].cls : page.els[i].cls[k] = sel.arg
              /\ sel.tag \in {"", page.els[i].tag}
         [] OTHER -> page.els[i].tag = sel.tag /\ NthOfType(page, i) = sel.nth}

InitScan ==
    /\ InitBeyond
    /\ ver \in {"v33", "v32", "v2"}
    /\ urlCanThrow = FALSE
    /\ browser = "up"
    /\ context = TRUE
    /\ isReady = TRUE
    /\ startPc = "done"
    /\ sessions = [s \in SessionIds |-> NoPage]
    /\ sessUrl = [p \in Pages |-> <<>>]
    /\ pageStatus = [p \in Pages |-> "none"]
    /\ pageUrl = [p \in Pages |-> Blank]
    /\ nextPage = 1
    /\ shutdownRes = "none"
    /\ lastClose = NoClose
    /\ \E page \in ScanPages :
          req = [r \in Slots |->
                   IF r \in SeqSlots
                   THEN [IdleFrame EXCEPT !.pc = "scan", !.scan.page = page]
                   ELSE IdleFrame]

\* page.evaluate of the scan script resolved
ScanPage(r) ==
    LET f == req[r]
        page == f.scan.page
    IN  /\ f.pc = "scan"
        /\ SetReq(r, [f EXCEPT !.pc = "scanned",
                               !.scan = [page |-> page, done |-> TRUE,
                                         buttons |-> scanButtons(page),
                                         inputs |-> scanInputs(page),
                                         links |-> scanLinks(page),
                                         prices |-> scanPrices(page)]])
        /\ UNCHANGED <<beyond, ver, urlCanThrow, browser, context, isReady, startPc, sessions, sessUrl,
                       pageStatus, pageUrl, nextPage, shutdownRes, lastClose>>

NextScan == \E r \in SeqSlots : ScanPage(r)

SpecScan == InitScan /\ [][NextScan]_vars

\* Concurrent requests.  The HTTP handler awaits worker.interact(request) for
\* each request it receives and holds no lock or queue, so a second call
\* starts while the first is suspended at an await.  The two requests are
\* kept small: both name session "s1", ask for no site or for a.com, select
\* no action on a page without buttons, take no booking step, and meet no
\* failed navigation or scan and no exception; each slot issues one call.
ConcurrentRequest(f) ==
    /\ f.pc # "idle"
    /\ f.sid = "s1"
    /\ f.site_url \in {<<>>, <<"a.com">>}
    /\ f.decision.action \in {"", "none"}
    /\ f.obs.buttons = <<>>
    /\ f.pc \notin {"fillIn", "fillOut", "fillGuests", "search"}
    /\ f.caught = "none" /\ ~f.navFailed /\ ~f.obsFailed

NextConcurrent ==
    \/ StartLaunch
    \/ StartContext
    \/ \E r \in Slots : Interact(r) /\ ConcurrentRequest(req'[r])

SpecConcurrent == Init /\ [][NextConcurrent]_vars

\* ------------------------------------------------------------ edge function
\* execute-action (supabase/functions/execute-action/index.ts), legacy
\* format: handleLegacyAction drives the command worker through callWorker,
\* one HTTP request per command.  The worker is remote: each call either
\* throws (the request fails or the status is not ok) or yields a result with
\* success true or false; a successful look carries the scan of some page.
AvailabilityTypes == {"autoAvailability", "availability", "checkAvailability"}
AssistedTypes == {"assistedBooking", "assisted_booking"}

\* the alternatives of the regex that picks the availability button
AvailabilityWords ==
    {"nalichnost", "availability", "check", "proveri", "search", "tarsi", "show",
     "pokazhi", "rates", "tseni"}

FieldKeys == {"name", "email", "phone", "guests", "checkin", "checkout"}

Field(key, targets) == [key |-> key, targets |-> targets]

fieldsToFill ==
    <<Field("name", {"name", "ime", "full_name", "fullname", "guest"}),
      Field("email", {"email", "imeyl", "e-mail", "mail"}),
      Field("phone", {"phone", "telefon", "tel", "mobile"}),
      Field("guests", {"guests", "gosti", "adults", "vazrastni"}),
      Field("checkin", {"checkin", "check-in", "arrival", "ot", "from"}),
      Field("checkout", {"checkout", "check-out", "departure", "do", "to"})>>

\* the requests: a type, and a payload with a mode and values for some keys
EdgeTypes ==
    {"availability", "checkAvailability", "exploreBooking", "assistedBooking",
     "assisted_booking", "status"}

Payload(mode, keys) == [mode |-> mode, values |-> [k \in FieldKeys |-> IF k \in keys THEN "x" ELSE ""]]

EdgePayloads ==
    {Payload(m, ks) : m \in {"execute", "preview", ""},
                      ks \in {{}, {"email"}, {"checkin", "checkout"}}}

\* what a look of the worker can return
SearchDom ==
    [EmptyDom EXCEPT !.buttons = <<Btn(<<"Rooms">>, "#rooms"), Btn(<<"Search">>, "#search")>>,
                     !.prices = <<"100 lv">>]

EdgeDoms == {EmptyDom, HotelDom, RangeDom, SearchDom}

CallOutcomes == {"ok", "fail", "threw"}

\* callWorker: the command is sent
Sent(e, action, target) ==
    [e EXCEPT !.sent = Append(@, [action |-> action, target |-> target])]

\* a result arrived and is kept
Step(e, res) == [e EXCEPT !.steps = Append(@, res)]

\* callWorker threw: the catch of the handler answers with status 500
EdgeThrow(e) ==
    [e EXCEPT !.pc = "done",
              !.response = [NoResponse EXCEPT !.returned = TRUE, !.status = 500,
                                              !.body = "error"]]

\* handleLegacyAction returned resp, which the handler sends with status 200
EdgeReturn(e, resp) ==
    [e EXCEPT !.pc = "done", !.response = [resp EXCEPT !.returned = TRUE, !.status = 200]]

\* return of a worker result as it is
PassThrough(res) ==
    [NoResponse EXCEPT !.success = res.success, !.body = "result", !.result = res]

\* return { success, actionType, steps, result, facts }
Summary(success, result) ==
    [NoResponse EXCEPT !.success = success, !.body = "summary", !.result = result]

\* return { success: true, actionType, mode: "preview", steps, result, facts }
Preview(result) == [Summary(TRUE, result) EXCEPT !.mode = "preview"]

\* return { success: false, steps, error }
Failure == [NoResponse EXCEPT !.success = FALSE, !.body = "failure"]

\* buttons.find(b => regex.test(b.text))
AvailBtn(buttons) == FindIndex({k \in DOMAIN buttons : TestI(AvailabilityWords, buttons[k].text)})

\* inputs.find(inp => targets.some(t => name or placeholder includes t))
MatchingInput(inputs, targets) ==
    FindIndex({k \in DOMAIN inputs :
                 \/ Parts(Lower(inputs[k].name)) \cap targets # {}
                 \/ Parts(Lower(inputs[k].placeholder)) \cap targets # {}})

\* the fields of fieldsToFill, from index i on, that have a value in the
\* payload and a matching input in the first look
Fillable(e, i) ==
    {k \in i..Len(fieldsToFill) :
        /\ e.payload.values[fieldsToFill[k].key] # ""
        /\ MatchingInput(e.look.data.inputs, fieldsToFill[k].targets) # 0}

\* a variant of AfterFields that submits in every mode but preview
AfterFieldsUnlessPreview(e, i) ==
    IF Fillable(e, i) # {}
    THEN [e EXCEPT !.pc = "fill", !.field = FindIndex(Fillable(e, i))]
    ELSE IF e.payload.mode # "preview"
    THEN [e EXCEPT !.pc = "submit", !.field = 0]
    ELSE EdgeReturn([e EXCEPT !.field = 0], Preview(e.look))

\* the loop over fieldsToFill from index i up to the next fill command, and
\* past its end the choice between submit and the preview response
AfterFields(e, i) ==
    IF Fillable(e, i) # {}
    THEN [e EXCEPT !.pc = "fill", !.field = FindIndex(Fillable(e, i))]
    ELSE IF e.payload.mode = "execute"
    THEN [e EXCEPT !.pc = "submit", !.field = 0]
    ELSE EdgeReturn([e EXCEPT !.field = 0], Preview(e.look))

EdgeUnchanged ==
    UNCHANGED <<ver, urlCanThrow, browser, context, isReady, startPc, sessions, sessUrl,
                pageStatus, pageUrl, nextPage, shutdownRes, lastClose, req,
                defaultSession, cmd>>

\* the handler received a legacy request
EdgeReceive(type, payload) ==
    /\ edge.pc = "idle"
    /\ edge' = [NoEdge EXCEPT !.pc = "open", !.type = type, !.payload = payload]
    /\ EdgeUnchanged

\* a variant of AfterOpen that goes on to look whatever open reported
AfterOpenAlways(e, res) == [Step(e, res) EXCEPT !.pc = "look"]

\* after the open result: a failed open ends the action
AfterOpen(e, res) ==
    IF res.success THEN [Step(e, res) EXCEPT !.pc = "look"]
    ELSE IF e.type \in AssistedTypes THEN EdgeReturn(Step(e, res), Failure)
    ELSE EdgeReturn(Step(e, res), PassThrough(res))

\* 1. open the site
EdgeOpen(out) ==
    /\ edge.pc = "open"
    /\ LET e == Sent(edge, "open", "")
       IN  edge' = IF out = "threw" THEN EdgeThrow(e)
                   ELSE AfterOpen(e, WorkerResult("open", out = "ok", EmptyDom))
    /\ EdgeUnchanged

\* after the first look
AfterLook(e, res) ==
    LET e2 == [Step(e, res) EXCEPT !.look = res]
        btn == AvailBtn(res.data.buttons)
    IN  IF e.type \in AvailabilityTypes
        THEN IF ~res.success THEN EdgeReturn(e2, PassThrough(res))
             ELSE IF btn # 0
             THEN [e2 EXCEPT !.pc = "click", !.target = res.data.buttons[btn].selector]
             ELSE EdgeReturn(e2, Summary(TRUE, res))
        ELSE IF e.type \in AssistedTypes THEN AfterFields(e2, 1)
        ELSE EdgeReturn(e2, Summary(TRUE, res))

\* 2. look at the page
EdgeLook(out, d) ==
    /\ edge.pc = "look"
    /\ LET e == Sent(edge, "look", "")
       IN  edge' = IF out = "threw" THEN EdgeThrow(e)
                   ELSE AfterLook(e, WorkerResult("look", out = "ok",
                                                  IF out = "ok" THEN d ELSE EmptyDom))
    /\ EdgeUnchanged

\* 3. availability: click the button the first look found
EdgeClick(out) ==
    /\ edge.pc = "click"
    /\ LET e == Sent(edge, "click", edge.target)
       IN  edge' = IF out = "threw" THEN EdgeThrow(e)
                   ELSE [Step(e, WorkerResult("click", out = "ok", EmptyDom))
                            EXCEPT !.pc = "lookAgain"]
    /\ EdgeUnchanged

\* availability: scan again after the click
EdgeLookAgain(out, d) ==
    /\ edge.pc = "lookAgain"
    /\ LET e == Sent(edge, "look", "")
           res == WorkerResult("look", out = "ok", IF out = "ok" THEN d ELSE EmptyDom)
       IN  edge' = IF out = "threw" THEN EdgeThrow(e)
                   ELSE EdgeReturn(Step(e, res), Summary(TRUE, res))
    /\ EdgeUnchanged

\* 3. assisted booking: fill the matching input of the current field
EdgeFill(out) ==
    /\ edge.pc = "fill"
    /\ LET inputs == edge.look.data.inputs
           input == inputs[MatchingInput(inputs, fieldsToFill[edge.field].targets)]
           e == Sent(edge, "fill", input.selector)
       IN  edge' = IF out = "threw" THEN EdgeThrow(e)
                   ELSE AfterFields(Step(e, WorkerResult("fill", out = "ok", EmptyDom)),
                                    edge.field + 1)
    /\ EdgeUnchanged

\* 4. assisted booking, execute mode: submit
EdgeSubmit(out) ==
    /\ edge.pc = "submit"
    /\ LET e == Sent(edge, "submit", "")
           res == WorkerResult("submit", out = "ok", EmptyDom)
       IN  edge' = IF out = "threw" THEN EdgeThrow(e)
                   ELSE [Step(e, res) EXCEPT !.pc = "lookAfter", !.submit = res]
    /\ EdgeUnchanged

\* assisted booking, execute mode: scan for the confirmation and return
EdgeLookAfter(out, d) ==
    /\ edge.pc = "lookAfter"
    /\ LET e == Sent(edge, "look", "")
           res == WorkerResult("look", out = "ok", IF out = "ok" THEN d ELSE EmptyDom)
       IN  edge' = IF out = "threw" THEN EdgeThrow(e)
                   ELSE EdgeReturn(Step(e, res), Summary(e.submit.success, res))
    /\ EdgeUnchanged

NextEdge ==
    \/ \E type \in EdgeTypes, payload \in EdgePayloads : EdgeReceive(type, payload)
    \/ \E out \in CallOutcomes : EdgeOpen(out)
    \/ \E out \in CallOutcomes, d \in EdgeDoms : EdgeLook(out, d)
    \/ \E out \in CallOutcomes : EdgeClick(out)
    \/ \E out \in CallOutcomes, d \in EdgeDoms : EdgeLookAgain(out, d)
    \/ \E out \in CallOutcomes : EdgeFill(out)
    \/ \E out \in CallOutcomes : EdgeSubmit(out)
    \/ \E out \in CallOutcomes, d \in EdgeDoms : EdgeLookAfter(out, d)

\* the handler is idle; the worker it talks to is the command worker, whose
\* state the edge function cannot see
InitEdge ==
    /\ ver = "v2"
    /\ urlCanThrow = FALSE
    /\ browser = "up"
    /\ context = TRUE
    /\ isReady = TRUE
    /\ startPc = "done"
    /\ sessions = [s \in SessionIds |-> NoPage]
    /\ sessUrl = [p \in Pages |-> <<>>]
    /\ pageStatus = [p \in Pages |-> "none"]
    /\ pageUrl = [p \in Pages |-> Blank]
    /\ nextPage = 1
    /\ shutdownRes = "none"
    /\ lastClose = NoClose
    /\ req = [r \in Slots |-> IdleFrame]
    /\ InitBeyond

SpecEdge == InitEdge /\ [][NextEdge]_vars

\* ---------------------------------------------------------- command worker
\* NeoWorker of src/unnamed/part_001: execute(command) on a map of sessions,
\* each holding one page, and a default session.  A SiteSession is created
\* together with its page and never changes it, so a session is identified by
\* its page.  Each step is one command, from its dispatch to its response.
PageActions == {"look", "click", "fill", "submit", "screenshot", "refresh"}

\* the ids generateSessionId can return
GenIds == {"s_a"}

CommandIds == SessionIds \cup GenIds

\* the sessionId a command carries; "" stands for none
CarriedIds == SessionIds \cup {""}

OpenUrls == {<<"a.com">>, <<"https://", "b.com">>}

\* openSite: the URL gets a scheme unless it starts with "http"
OpenUrl(u) == IF StartsWithHttp(u) THEN u ELSE <<"https://">> \o u

Command(action, sessionId, page, success, error) ==
    [action |-> action, sessionId |-> sessionId, page |-> page, success |-> success,
     error |-> error]

\* execute: the guard on a worker that has not started
Initialized == isReady /\ browser # "null" /\ context

NotInitialized(action, sessionId) ==
    Command(action, sessionId, NoPage, FALSE, "Browser not initialized")

\* getSession: the session of the id, else the default session
getSession(sessionId) ==
    IF sessionId # "" /\ sessions[sessionId] # NoPage
    THEN sessions[sessionId]
    ELSE defaultSession

\* a variant of ClosePage that leaves the page open
LeavePage(status, p) == status

\* page.close().catch(() => {})
ClosePage(status, p) == IF p = NoPage THEN status ELSE [status EXCEPT ![p] = "closed"]

\* start(): launch, newContext, isReady; either of the two calls can throw
CommandStart(out) ==
    /\ startPc = "init"
    /\ browser' = IF out = "launchThrew" THEN "null" ELSE "up"
    /\ context' = (out = "ok")
    /\ isReady' = (out = "ok")
    /\ startPc' = IF out = "ok" THEN "done" ELSE "failed"
    /\ UNCHANGED <<ver, urlCanThrow, sessions, sessUrl, pageStatus, pageUrl, nextPage,
                   shutdownRes, lastClose, req, defaultSession, cmd, edge>>

\* execute of a command on a worker that is not ready
CommandRefused(action, sessionId) ==
    /\ ~Initialized
    /\ cmd' = NotInitialized(action, sessionId)
    /\ UNCHANGED <<ver, urlCanThrow, browser, context, isReady, startPc, sessions, sessUrl,
                   pageStatus, pageUrl, nextPage, shutdownRes, lastClose, req,
                   defaultSession, edge>>

\* openSite, navigation succeeded: the session is registered under sid, the
\* page of a session already registered there is closed, and the new session
\* becomes the default session
OpenDone(u, sessionId, sid) ==
    LET p == nextPage
    IN  /\ pageStatus' = [ClosePage(pageStatus, sessions[sid]) EXCEPT ![p] = "open"]
        /\ pageUrl' = [pageUrl EXCEPT ![p] = OpenUrl(u)]
        /\ sessUrl' = [sessUrl EXCEPT ![p] = OpenUrl(u)]
        /\ sessions' = [sessions EXCEPT ![sid] = p]
        /\ defaultSession' = p
        /\ cmd' = Command("open", sessionId, p, TRUE, "")

\* openSite, navigation failed: the new page is closed and the error reaches
\* the catch of execute
OpenFailed(sessionId) ==
    LET p == nextPage
    IN  /\ pageStatus' = ClosePage([pageStatus EXCEPT ![p] = "open"], p)
        /\ cmd' = Command("open", sessionId, p, FALSE, "navigation")
        /\ UNCHANGED <<pageUrl, sessUrl, sessions, defaultSession>>

\* execute({ action: "open", url, sessionId })
CommandOpen(u, sessionId, sid, ok) ==
    /\ Initialized
    /\ nextPage <= MaxPages
    /\ sid \in (IF sessionId # "" THEN {sessionId} ELSE GenIds)
    /\ nextPage' = nextPage + 1
    /\ IF ok THEN OpenDone(u, sessionId, sid) ELSE OpenFailed(sessionId)
    /\ UNCHANGED <<ver, urlCanThrow, browser, context, isReady, startPc, shutdownRes,
                   lastClose, req, edge>>

\* execute of look, click, fill, submit, screenshot or refresh: the command
\* works on the page of getSession(sessionId); what it does there succeeds or
\* not, and fails on a page that is closed
CommandPage(action, sessionId, ok) ==
    /\ Initialized
    /\ LET p == getSession(sessionId)
       IN  cmd' = IF p = NoPage
                  THEN Command(action, sessionId, NoPage, FALSE, "No active session")
                  ELSE IF ok /\ pageStatus[p] = "open"
                  THEN Command(action, sessionId, p, TRUE, "")
                  ELSE Command(action, sessionId, p, FALSE, "failed")
    /\ UNCHANGED <<ver, urlCanThrow, browser, context, isReady, startPc, sessions, sessUrl,
                   pageStatus, pageUrl, nextPage, shutdownRes, lastClose, req,
                   defaultSession, edge>>

\* execute({ action: "close", sessionId }): closeSession
CommandClose(sessionId) ==
    /\ Initialized
    /\ IF sessionId # "" /\ sessions[sessionId] # NoPage
       THEN LET p == sessions[sessionId]
            IN  /\ pageStatus' = ClosePage(pageStatus, p)
                /\ sessions' = [sessions EXCEPT ![sessionId] = NoPage]
                /\ defaultSession' = IF defaultSession = p THEN NoPage ELSE defaultSession
                /\ cmd' = Command("close", sessionId, p, TRUE, "")
       ELSE /\ pageStatus' = ClosePage(pageStatus, defaultSession)
            /\ defaultSession' = NoPage
            /\ cmd' = Command("close", sessionId, defaultSession, TRUE, "")
            /\ UNCHANGED sessions
    /\ UNCHANGED <<ver, urlCanThrow, browser, context, isReady, startPc, sessUrl, pageUrl,
                   nextPage, shutdownRes, lastClose, req, edge>>

InitCommand ==
    /\ ver = "v2"
    /\ urlCanThrow = FALSE
    /\ browser = "null"
    /\ context = FALSE
    /\ isReady = FALSE
    /\ startPc = "init"
    /\ sessions = [s \in CommandIds |-> NoPage]
    /\ sessUrl = [p \in Pages |-> <<>>]
    /\ pageStatus = [p \in Pages |-> "none"]
    /\ pageUrl = [p \in Pages |-> Blank]
    /\ nextPage = 1
    /\ shutdownRes = "none"
    /\ lastClose = NoClose
    /\ req = [r \in Slots |-> IdleFrame]
    /\ InitBeyond

NextCommand ==
    \/ \E out \in {"ok", "launchThrew", "contextThrew"} : CommandStart(out)
    \/ \E action \in PageActions \cup {"open", "close"}, sessionId \in CarriedIds :
          CommandRefused(action, sessionId)
    \/ \E u \in OpenUrls, sessionId \in CarriedIds, sid \in CommandIds, ok \in BOOLEAN :
          CommandOpen(u, sessionId, sid, ok)
    \/ \E action \in PageActions, sessionId \in CarriedIds, ok \in BOOLEAN :
          CommandPage(action, sessionId, ok)
    \/ \E sessionId \in CarriedIds : CommandClose(sessionId)

SpecCommand == InitCommand /\ [][NextCommand]_vars

\* ----------------------------------------------------------------- claims
\* the log holds a line reporting a navigation failure
NavFailureLogged(logs) == \E i \in 1..Len(logs) : logs[i] \in {NavError, NavFailed}

\* C1: interact never throws.  Whatever browser operation fails, and at
\* whatever stage (page creation, probe, navigation, scan, click, fill, scroll,
\* reading the URL, settle wait), the exception is caught inside interact and
\* the call ends by returning a result object; this holds for both classes.
C1_InteractNeverThrows ==
    \A r \in Slots :
       /\ req[r].pc # "escaped"
       /\ req[r].caught # "none" => req[r].pc \in {"catchClose", "done"}
       /\ req[r].pc = "done" => req[r].result.returned

C1_Witness ==
    \E r \in Slots :
       /\ req[r].pc = "done" /\ req[r].caught = "url"
       /\ req[r].result.returned /\ ~req[r].result.success

\* a call that returns through the catch block has torn its session down
TornDown(f) ==
    /\ sessions[f.sid] = NoPage
    /\ f.closing # NoPage =>
          /\ pageStatus[f.closing] \in {"closed", "dead"}
          /\ \A s \in SessionIds : sessions[s] # f.closing
    /\ ~f.result.success
    /\ f.result.logs = f.logs
    /\ Len(f.logs) >= 2 /\ f.logs[Len(f.logs)] = "RESULT"

\* C2: when an exception is caught at interact's boundary, the session of the
\* request's session_id is torn down before interact returns (page closed,
\* entry removed), the result has success=false and carries the log lines
\* accumulated so far, and the next interact for the id starts from a freshly
\* created page: a call that finds no entry creates a page, and every page
\* that enters the map is one context.newPage() has just created.
C2_FailureTearsDown ==
    [][\A r \in Slots :
          /\ (req[r].pc = "done" /\ req[r].caught # "none") => TornDown(req[r])
          /\ (req[r].pc = "idle" /\ req'[r].pc # "idle" /\ sessions[req'[r].sid] = NoPage) =>
                /\ req'[r].pc \in {"newPage", "done"}
                /\ req'[r].page = NoPage
          /\ \A s \in SessionIds :
                (sessions'[s] # sessions[s] /\ sessions'[s] # NoPage) =>
                   /\ sessions'[s] = nextPage
                   /\ pageStatus[nextPage] = "none" /\ pageStatus'[nextPage] = "open"
                   /\ pageUrl'[nextPage] = Blank /\ sessUrl'[nextPage] = <<>>
      ]_vars

C2_Witness ==
    \E r \in Slots :
       /\ req[r].pc = "done" /\ req[r].caught # "none"
       /\ req[r].closing # NoPage /\ pageStatus[req[r].closing] = "closed"
       /\ sessions[req[r].sid] = NoPage
       /\ ~req[r].result.success /\ Len(req[r].result.logs) >= 2

\* C3: an interact that arrives before start() has completed returns a
\* success=false result and does no session work: no page is created, the
\* session map is unchanged and no browser operation is issued.
C3_NotReadyNoSessionWork ==
    \A r \in Slots :
       LET f == req[r] IN
       (f.pc # "idle" /\ startPc # "done") =>
          /\ f.pc = "done" /\ f.result.returned /\ ~f.result.success
          /\ ~f.result.hasObs
          /\ f.page = NoPage /\ f.created = 0 /\ f.probe = "none" /\ f.gotos = 0
          /\ f.caught = "none" /\ ~f.obsFailed
          /\ sessions[f.sid] = f.startPage
          /\ \A s \in SessionIds : sessions[s] = NoPage
          /\ \A p \in Pages : pageStatus[p] = "none"

C3_Witness ==
    \E r \in Slots :
       /\ req[r].pc = "done" /\ ~isReady /\ startPc = "launched"
       /\ ~req[r].result.success /\ req[r].result.message = <<"not ready">>

\* C4: navigation idempotence.  A call for a session_id whose session exists
\* and whose page passes the liveness probe issues no page.goto and works on
\* the same page, whatever site_url it carries, so in particular when the
\* site_url is the one the session already shows.
C4_NoRenavigation ==
    \A r \in Slots :
       LET f == req[r] IN
       (f.startPage # NoPage /\ f.probe = "ok") =>
          /\ f.gotos = 0 /\ f.created = 0
          /\ f.page = f.startPage
          /\ f.pc \notin {"goto", "navWait", "retryWait"}
          /\ f.caught = "none" => sessions[f.sid] = f.page

C4_Witness ==
    \E r \in Slots :
       LET f == req[r] IN
       /\ f.pc = "observe" /\ f.startPage # NoPage /\ f.probe = "ok"
       /\ f.target # <<>> /\ sessUrl[f.page] = f.target
       /\ f.gotos = 0 /\ f.page = f.startPage

\* C5: for an existing live session, interact navigates whenever the
\* normalized non-empty requested URL differs from the session's stored URL:
\* by the time the observation starts, a page.goto has been issued.
C5_NavigatesOnUrlChange ==
    \A r \in Slots :
       LET f == req[r] IN
       (/\ f.pc = "observe" /\ f.startPage # NoPage /\ f.probe = "ok"
        /\ f.target # <<>> /\ f.target # sessUrl[f.page]) => f.gotos > 0

\* the call found a session whose probe failed and has replaced its page
Recreated(f) ==
    /\ f.startPage # NoPage /\ f.probe \in {"fail", "dead"}
    /\ f.pc # "recreate" /\ f.caught # "newPage"

\* C6: a session whose liveness probe fails is treated as absent.  interact
\* creates a new page, replaces the map entry with a session whose stored URL
\* is empty, marks navigation as needed, navigates to the requested URL and
\* carries the request on through observation and result composition.
C6_ProbeFailureRecreates ==
    \A r \in Slots :
       LET f == req[r] IN
       Recreated(f) =>
          /\ f.created = 1 /\ f.page # f.startPage /\ pageStatus[f.page] # "none"
          /\ f.caught = "none" => sessions[f.sid] = f.page
          /\ f.pc \in {"goto", "navWait", "retryWait"} =>
                f.needsNav /\ f.target # <<>> /\ sessUrl[f.page] = <<>>
          /\ f.pc = "observe" =>
                /\ f.needsNav
                /\ f.target # <<>> => f.gotos >= 1
                /\ f.target = <<>> => f.gotos = 0 /\ sessUrl[f.page] = <<>>
          /\ (f.pc = "done" /\ f.caught = "none") => f.result.success /\ f.result.hasObs

C6_Witness ==
    \E r \in Slots :
       LET f == req[r] IN
       /\ f.pc = "done" /\ Recreated(f) /\ f.gotos >= 1
       /\ f.page # f.startPage /\ sessions[f.sid] = f.page
       /\ f.result.success /\ f.result.hasObs

\* C7 as stated: an interact for a session whose page was closed from outside
\* returns success=false with a non-empty logs list.
C7_ClosedPageFails ==
    \A r \in Slots :
       LET f == req[r] IN
       (f.pc = "done" /\ f.startPage # NoPage /\ f.probe = "dead") =>
          ~f.result.success /\ Len(f.result.logs) > 0

\* C7, amended: an interact for a session whose page was closed from outside
\* never raises and returns a result with a non-empty logs list; the closed
\* page is replaced, so the result has success=true and an observation taken
\* on the new page, and success=false only when an operation after the probe
\* throws.
C7_ClosedPageRecovered ==
    \A r \in Slots :
       LET f == req[r] IN
       (f.startPage # NoPage /\ f.probe = "dead") =>
          /\ f.pc # "escaped" /\ f.caught # "probe"
          /\ f.pc = "done" =>
                /\ f.result.returned /\ Len(f.result.logs) > 0
                /\ f.result.success <=> f.caught = "none"
                /\ f.result.success => f.result.hasObs /\ f.page # f.startPage

C7_Witness ==
    \E r \in Slots :
       LET f == req[r] IN
       /\ f.pc = "done" /\ f.startPage # NoPage /\ f.probe = "dead"
       /\ f.result.success /\ f.result.hasObs /\ Len(f.result.logs) > 0

\* C8: a navigation failure is not fatal.  When the navigation has failed
\* the failure is logged, the session stays in the map, the observation step
\* is still performed, and the call returns a result with an observation; the
\* failure path is taken only when an operation after the navigation throws.
C8_NavFailureNotFatal ==
    \A r \in Slots :
       LET f == req[r] IN
       f.navFailed =>
          /\ NavFailureLogged(f.logs)
          /\ f.caught \in {"none", "observe", "reobserve", "wait", "scroll"}
          /\ f.pc \notin {"newPage", "probe", "recreate", "goto", "navWait", "retryWait"}
          /\ f.caught = "none" => sessions[f.sid] = f.page
          /\ (f.pc = "done" /\ f.caught = "none") =>
                /\ f.result.success /\ f.result.hasObs
                /\ NavFailureLogged(f.result.logs)

C8_Witness ==
    \E r \in Slots :
       LET f == req[r] IN
       /\ f.pc = "done" /\ f.navFailed /\ f.gotos >= 1
       /\ f.result.success /\ f.result.hasObs /\ sessions[f.sid] = f.page

\* C9: navigateWithRetry makes at most NAV_RETRIES (2) goto attempts.  It
\* returns true at the first attempt that succeeds or that fails with the
\* page on a URL that is neither empty nor about:blank, making no further
\* attempt, and returns false only after NAV_RETRIES attempts that all failed
\* with the page still blank.
C9_NavigateWithRetry ==
    \A r \in Slots :
       LET f == req[r]
           t == f.navTrace
           n == Len(t)
       IN  /\ NAV_RETRIES >= 2
           /\ f.gotos <= NAV_RETRIES /\ n <= f.gotos
           /\ \A i \in 1..(n - 1) : ~t[i].ok /\ t[i].blank
           /\ f.navRet = "true" => n >= 1 /\ n = f.gotos /\ (t[n].ok \/ ~t[n].blank)
           /\ f.navRet = "false" =>
                 /\ n = NAV_RETRIES /\ f.gotos = NAV_RETRIES
                 /\ \A i \in 1..n : ~t[i].ok /\ t[i].blank

C9_Witness ==
    \E r \in Slots :
       LET f == req[r] IN
       /\ f.pc = "observe" /\ f.navRet = "false"
       /\ Len(f.navTrace) = NAV_RETRIES /\ f.gotos = NAV_RETRIES

\* C10: when observeDOM throws during the first observation the request is
\* not aborted: an empty snapshot is substituted, the session is kept and the
\* pipeline goes on to action selection and result composition, in both
\* worker classes.
C10_ScanFailureSubstituted ==
    \A r \in Slots :
       LET f == req[r] IN
       f.obsFailed =>
          /\ f.caught # "observe"
          /\ f.caught = "none" => sessions[f.sid] = f.page
          /\ (f.pc = "done" /\ f.caught = "none") =>
                f.result.success /\ f.result.hasObs

\* C11: re-observation always follows a performed action.  Whenever interact
\* returns a result whose action_taken is set, the observation in that result
\* was captured after the last performed action, never before it.
C11_ObservedAfterAction ==
    \A r \in Slots :
       LET f == req[r] IN
       (f.pc = "done" /\ f.result.success /\ f.result.action_taken # <<>>)
          => f.obsAfter = Len(f.result.action_taken)

\* C12: when the selected click or fill cannot be realized by any selector
\* strategy, the action is recorded as not performed and the request still
\* completes successfully: the step that exhausts the strategies ends the call
\* with success = true, action_taken absent, the observation taken before the
\* attempt, and the session left in the map.
C12_UnrealizedActionSucceeds ==
    [][\A r \in Slots :
          (req[r].pc \in {"click", "fill"} /\ req'[r].unrealized) =>
             /\ req'[r].pc = "done"
             /\ req'[r].result.success
             /\ req'[r].result.action_taken = <<>>
             /\ req'[r].result.hasObs
             /\ req'[r].result.obs = req[r].obs
             /\ req'[r].obsAfter = 0
             /\ sessions'[req[r].sid] = req[r].page
             /\ req[r].page # NoPage]_vars

\* a fill of NeoInteractiveWorker that no strategy realized, on a page that
\* shows the input
C12_Witness ==
    \E r \in Slots :
       LET f == req[r] IN
       /\ ver = "v32" /\ f.pc = "done" /\ f.unrealized /\ f.decision.action = "fill"
       /\ f.result.success /\ Len(f.result.obs.inputs) > 0
       /\ sessions[f.sid] = f.page

\* C13: page ownership.  After any sequence of interact, closeSession and
\* shutdown calls (no call in flight), every page that has been created and
\* not closed is the page of exactly one session-map entry: no open page
\* exists that the session map no longer references.
C13_PageOwnership ==
    AllIdle =>
       \A p \in Pages :
          pageStatus[p] = "open" => Cardinality({s \in SessionIds : sessions[s] = p}) = 1

\* a call that has started and not yet produced its result
InFlight(f) == f.pc \notin {"idle", "done"}

\* C14: for every interleaving of concurrently issued interact calls, no page
\* is operated on by two in-flight interact calls at the same time: calls for
\* the same session_id are processed to completion one after another.
C14_NoSharedPage ==
    \A r1, r2 \in Slots :
       (r1 # r2 /\ InFlight(req[r1]) /\ InFlight(req[r2]) /\ req[r1].page # NoPage)
          => req[r1].page # req[r2].page

\* C15: closeSession(id) closes the page of session id and removes its map
\* entry; it leaves every other session's entry, page and stored URL
\* unchanged, and is a no-op when id is not in the map.
C15_CloseSessionFrame ==
    [][\A id \in SessionIds :
          CloseSession(id) =>
             /\ sessions'[id] = NoPage
             /\ sessions[id] # NoPage => pageStatus'[sessions[id]] # "open"
             /\ \A s \in SessionIds \ {id} :
                   /\ sessions'[s] = sessions[s]
                   /\ sessions[s] # NoPage =>
                         /\ pageStatus'[sessions[s]] = pageStatus[sessions[s]]
                         /\ pageUrl'[sessions[s]] = pageUrl[sessions[s]]
                         /\ sessUrl'[sessions[s]] = sessUrl[sessions[s]]
             /\ sessions[id] = NoPage =>
                   UNCHANGED <<sessions, pageStatus, pageUrl, sessUrl, nextPage, browser,
                               context, isReady>>
      ]_vars

\* closeSession("s1") has closed the page of s1 while s2 keeps its entry, its
\* open page and the URL stored for it
C15_Witness ==
    /\ lastClose.id = "s1" /\ lastClose.page # NoPage
    /\ pageStatus[lastClose.page] = "closed"
    /\ sessions["s1"] = NoPage
    /\ sessions["s2"] # NoPage /\ pageStatus[sessions["s2"]] = "open"
    /\ sessUrl[sessions["s2"]] # <<>>

\* C16: resource cleanup never raises.  closeSession and shutdown complete
\* without throwing even when closing a page or closing the browser engine
\* fails, shutdown leaves the session map empty, and a shutdown after a
\* previous shutdown is equally safe.
C16_CleanupNeverRaises ==
    /\ shutdownRes # "threw"
    /\ shutdownRes = "ok" => \A s \in SessionIds : sessions[s] = NoPage

\* C17: every interact call eventually returns a result, given that each
\* browser operation eventually completes or fails: every loop of the pipeline
\* runs a bounded number of iterations and no step waits for something that
\* may never happen.
C17_InteractReturns ==
    \A r \in SeqSlots : (req[r].pc # "idle") ~> (req[r].pc = "done")

\* a call of NeoInteractiveWorker that used up its navigation attempts and
\* returned
C17_Witness ==
    \E r \in Slots :
       /\ ver = "v32" /\ req[r].pc = "done" /\ req[r].result.returned
       /\ req[r].gotos = NAV_RETRIES /\ req[r].navFailed

\* the text names a word of the vocabulary, whatever its case
Mentions(words, text) == \E i \in 1..Len(text) : Parts(Lower(text[i])) \cap words # {}

\* C18: cascade ordering.  For a snapshot that contains both a modal with a
\* close-labelled button and an email-typed input, and a message that
\* expresses close intent and also contains an email address ("Please close
\* this, my email is a@b.com"), the action selector decides a click on the
\* modal-close button, not a fill of the email input.
C18_ModalCloseOutranksFill ==
    \A r \in Slots :
       LET f == req[r] IN
       (/\ f.pc = "decided"
        /\ Mentions({"close"}, f.msg) /\ Mentions({"@email"}, f.msg)
        /\ \E k \in DOMAIN f.obs.buttons : Mentions({"close"}, f.obs.buttons[k].text)
        /\ \E k \in DOMAIN f.obs.inputs : f.obs.inputs[k].type = "email")
          => /\ f.decision.action = "click"
             /\ \E k \in DOMAIN f.obs.buttons :
                   /\ Mentions({"close"}, f.obs.buttons[k].text)
                   /\ f.decision.target = f.obs.buttons[k].selector

\* the input is email-typed, or its name or placeholder matches the email
\* vocabulary
IsEmailInput(i) ==
    \/ i.type = "email"
    \/ Mentions({"email", "imeil"}, <<i.name>>)
    \/ Mentions({"email", "imeil"}, <<i.placeholder>>)

\* C19: the extracted-value fill outranks every click and scroll rule.  For
\* any message containing an email address and any snapshot containing at
\* least one input that is email-typed or whose name or placeholder matches
\* the email vocabulary, decideAction of NeoInteractiveWorker returns a fill
\* whose target is the selector of the first such input in snapshot order and
\* whose value is the first email of the message, whatever buttons and other
\* inputs are present.
C19_EmailFillFirst ==
    \A r \in Slots :
       LET f == req[r]
           emails == {k \in DOMAIN f.msg : "@email" \in Parts(f.msg[k])}
           fields == {k \in DOMAIN f.obs.inputs : IsEmailInput(f.obs.inputs[k])}
       IN  (ver = "v32" /\ f.pc = "decided" /\ emails # {} /\ fields # {}) =>
              /\ f.decision.action = "fill"
              /\ \E k \in fields :
                    /\ \A j \in fields : k <= j
                    /\ f.decision.target = f.obs.inputs[k].selector
              /\ \E k \in emails :
                    /\ \A j \in emails : k <= j
                    /\ f.decision.value = f.msg[k]

\* a message with a booking word and two addresses, on a form with booking
\* buttons, a phone input and two email inputs: the fill goes to the first
\* email input with the first address
C19_Witness ==
    \E r \in Slots :
       LET f == req[r] IN
       /\ ver = "v32" /\ f.pc = "decided"
       /\ f.msg = <<"book", "c@d.org", "a@b.com">>
       /\ Len(f.obs.buttons) = 2 /\ Len(f.obs.inputs) = 3
       /\ f.obs.inputs[1].name = "phone"
       /\ f.decision.action = "fill" /\ f.decision.target = "#ue"
       /\ f.decision.value = "c@d.org"

\* C20: for the message "rezerviraj" (no email or date in it, no
\* booking_data) and a snapshot containing a button whose text matches the
\* booking vocabulary, the decision is a click whose target is the selector of
\* the first such button and whose reason contains the button's text,
\* case-insensitively on both sides.
C20_BookingClick ==
    \A r \in Slots :
       LET f == req[r]
           words == {"rezerv", "book", "reserve", "zapazi"}
           btns == {k \in DOMAIN f.obs.buttons : Mentions(words, f.obs.buttons[k].text)}
       IN  (/\ f.pc = "decided" /\ ~f.booking.present
            /\ Mentions(words, f.msg)
            /\ ~Mentions({"@email", "@date"}, f.msg)
            /\ btns # {}) =>
              /\ f.decision.action = "click"
              /\ \E k \in btns :
                    /\ \A j \in btns : k <= j
                    /\ f.decision.target = f.obs.buttons[k].selector
                    /\ f.decision.reason = f.obs.buttons[k].text

\* the snapshot holds two date-typed inputs and no input that matches a
\* check-in or check-out keyword
TwoPlainDates(obs) ==
    /\ Len(SelectSeq(obs.inputs, LAMBDA i : i.type = "date")) = 2
    /\ \A k \in DOMAIN obs.inputs :
          ~InText(CheckInKeywords \cup CheckOutKeywords, obs.inputs[k])

\* the selector of the n-th date-typed input of the snapshot
DateSelector(obs, n) == SelectSeq(obs.inputs, LAMBDA i : i.type = "date")[n].selector

\* the call is in the booking branch with check_in, check_out and guests given
AllThree(f) ==
    /\ f.booking.present /\ f.booking.check_in # "" /\ f.booking.check_out # ""
    /\ f.booking.guests # 0
    /\ TwoPlainDates(f.obs)

\* the booking steps run in the order check-in, check-out, guests, search
BookingOrder(f, g) ==
    /\ f.pc = "fillIn" => g.pc = "fillOut"
    /\ f.pc = "fillOut" => g.pc = "fillGuests"
    /\ f.pc = "fillGuests" => g.pc = "search"
    /\ (g.pc = "fillIn" /\ f.pc # "fillIn") => f.actions = <<>>

C22_SearchIffProgress ==
    [][\A r \in Slots :
          LET f == req[r]
              g == req'[r]
              n == CASE f.pc = "fillIn" -> 1 [] f.pc = "fillOut" -> 2 [] OTHER -> 3
              progress == g.actions # <<>> \/ f.intent
              fills == {"fillIn", "fillOut", "fillGuests"}
          IN  /\ (f.pc \in fills /\ g # f) =>
                    IF BookingPc(f.booking, n) # "search"
                    THEN g.pc = BookingPc(f.booking, n)
                    ELSE progress => g.pc = "search"
              /\ (f.pc \in fills /\ g.pc = "search") => progress
      ]_vars

\* The click rules of the worker's decideAction: the vocabulary looked for in
\* the message and the vocabulary looked for in the button texts.
ClickRules ==
    IF ver = "v33"
    THEN {[msg |-> {"stai", "rooms", "nastanyavane"},
           btn |-> {"stai", "rooms", "nastanyavane", "accommodation"}],
          [msg |-> {"kontakt", "contact", "svarzhi"}, btn |-> {"kontakt", "contact", "svarzhi"}]}
    ELSE {[msg |-> {"rezerv", "book", "reserve", "zapazi"},
           btn |-> {"rezerv", "book", "reserve", "zapazi"}],
          [msg |-> {"nalichnost", "nalichni", "svobodni", "availability", "check", "proveri"},
           btn |-> {"nalichnost", "nalichni", "svobodni", "availability", "check", "proveri",
                    "tarsi", "search"}],
          [msg |-> {"stai", "rooms", "nastanyavane", "accommodation"},
           btn |-> {"stai", "rooms", "nastanyavane", "accommodation"}],
          [msg |-> {"izprati", "submit", "potvardi", "send"},
           btn |-> {"izprati", "submit", "potvardi", "send"}]}

\* some rule matches the message and finds its element in the snapshot
RuleFinds(f) ==
    \/ \E rule \in ClickRules :
          /\ Mentions(rule.msg, f.msg)
          /\ \E k \in DOMAIN f.obs.buttons : Mentions(rule.btn, f.obs.buttons[k].text)
    \/ /\ ver = "v32"
       /\ \E t \in DOMAIN f.msg : "@email" \in Parts(f.msg[t])
       /\ \E k \in DOMAIN f.obs.inputs : IsEmailInput(f.obs.inputs[k])
    \/ /\ ver = "v32"
       /\ \E t \in DOMAIN f.msg : "@date" \in Parts(f.msg[t])
       /\ \E k \in DOMAIN f.obs.inputs :
             \/ f.obs.inputs[k].type = "date"
             \/ Mentions({"date", "data", "check"}, <<f.obs.inputs[k].name>>)

\* the message has a word of the scroll rule, which only NeoInteractiveWorker has
ScrollAsked(f) == ver = "v32" /\ Mentions({"nadolu", "poveche", "scroll", "more"}, f.msg)

\* C23 as stated: the action selector is total: for every message and every
\* snapshot decideAction returns exactly one decision, and when no rule both
\* matches the message and finds a corresponding snapshot element it returns
\* action none.
C23_SelectorTotal ==
    \A r \in SeqSlots :
       LET f == req[r] IN
       f.pc = "decided" =>
          /\ f.decision.action \in {"click", "fill", "scroll", "wait", "none"}
          /\ ~RuleFinds(f) => f.decision.action = "none"

\* C23 amended: exactly one decision is returned, and when no rule both
\* matches the message and finds a corresponding snapshot element the
\* decision is scroll for a message with a scroll word, which needs no
\* element, and none otherwise.
C23_SelectorTotalOrScroll ==
    \A r \in SeqSlots :
       LET f == req[r] IN
       f.pc = "decided" =>
          /\ f.decision.action \in {"click", "fill", "scroll", "wait", "none"}
          /\ ~RuleFinds(f) =>
                f.decision.action = IF ScrollAsked(f) THEN "scroll" ELSE "none"
          /\ f.decision.action = "none" => ~RuleFinds(f)

\* a message of the booking rule was decided on a page without any button:
\* the rule matches the message, finds no element, and the decision is none
C23_Witness ==
    \E r \in SeqSlots :
       LET f == req[r] IN
       /\ f.pc = "decided" /\ ver = "v32"
       /\ Mentions({"rezerv", "book", "reserve", "zapazi"}, f.msg)
       /\ f.obs.buttons = <<>> /\ f.obs.inputs = <<>>
       /\ f.decision.action = "none"

\* s is an initial part of t
IsPrefix(s, t) == Len(s) <= Len(t) /\ s = SubSeq(t, 1, Len(s))

\* the executor run is over
ExecOver(f) == f.pc = "execDone"

\* C24: the click executor tries its selector strategies in a fixed order
\* starting with the target as a raw selector; the first strategy that
\* succeeds ends the attempt with performed = true and no later strategy is
\* tried; when every strategy fails the outcome is performed = false and no
\* exception is raised.
C24_ClickStrategies ==
    [][\A r \in SeqSlots :
          LET e == req[r].exec
              d == req'[r].exec
          IN  (d.kind \in {"tryClick33", "tryClick32", "clickElement"} /\ d.session) =>
                 /\ IsPrefix(d.tried, Strategies(d))
                 /\ d.tried # <<>> => d.tried[1] = [by |-> "selector", arg |-> d.target]
                 /\ e.performed => (d.tried = e.tried /\ d.performed)
                 /\ (d.performed /\ ~e.performed) => req'[r].pc # "exec"
                 /\ (ExecOver(req'[r]) /\ d.tried = Strategies(d) /\ d.next > Len(d.tried)) =>
                       (~d.performed /\ ~d.raised)
                 /\ (ExecOver(req'[r]) /\ ~d.performed) => (d.tried = Strategies(d) /\ ~d.raised)
      ]_vars

\* the click of the second strategy succeeded after the raw selector failed
C24_Witness ==
    \E r \in SeqSlots :
       LET f == req[r] IN
       /\ ExecOver(f) /\ f.exec.kind = "tryClick32" /\ f.exec.performed
       /\ Len(f.exec.tried) = 2 /\ f.exec.tried[2].by = "text="

\* the strategies (a) to (e) of the fill executor, by their selector form
FillForms == <<"selector", "#id", "[name=]", "[placeholder*= i]", "[aria-label*= i]">>

\* the strategies of the sequence that are among (a) to (e), in their order
FillFormsOf(seq) ==
    LET own == SelectSeq(seq, LAMBDA x : \E k \in DOMAIN FillForms : x.by = FillForms[k])
    IN  [i \in DOMAIN own |-> own[i].by]

\* C25: the fill executor attempts, in this order, (a) the target as a raw
\* selector, (b) an id selector, (c) a name-attribute selector, (d) a
\* placeholder-substring selector, (e) an accessibility-label substring
\* selector; the first success ends the attempt and exhaustion yields a soft
\* failure, not an exception.
C25_FillStrategies ==
    [][\A r \in SeqSlots :
          LET e == req[r].exec
              d == req'[r].exec
          IN  (d.kind \in {"tryFill32", "fillInput"} /\ d.session) =>
                 /\ IsPrefix(FillFormsOf(d.tried), FillForms)
                 /\ e.performed => (d.tried = e.tried /\ d.performed)
                 /\ (d.performed /\ ~e.performed) => ExecOver(req'[r])
                 /\ (ExecOver(req'[r]) /\ ~d.performed) =>
                       (FillFormsOf(d.tried) = FillForms /\ ~d.raised)
      ]_vars

\* C26: a scroll decision cannot fail the request: when the decision is
\* scroll, interact returns success = true and keeps the session even if the
\* in-page scroll operation itself fails.  A failed scroll leads neither to
\* the teardown of the session nor to a failure result.
C26_ScrollCannotFail ==
    \A r \in Slots :
       LET f == req[r] IN
       f.caught = "scroll" =>
          /\ f.pc # "catchClose"
          /\ f.pc = "done" => f.result.success

\* the snapshot shows a modal: a control labelled as its close button
ModalPresent(obs) ==
    \E k \in DOMAIN obs.buttons : Mentions({"close"}, obs.buttons[k].text)

\* the parts the composed message is to have for an action and a snapshot,
\* in the order of the claim
ComposedParts(action, obs) ==
    (IF action # <<>> THEN <<"action">> ELSE <<>>)
    \o <<"title">>
    \o (IF obs.buttons # <<>> THEN <<"buttons">> ELSE <<>>)
    \o (IF \E k \in DOMAIN obs.inputs : obs.inputs[k].value = "" THEN <<"inputs">> ELSE <<>>)
    \o (IF obs.prices # <<>> THEN <<"prices">> ELSE <<>>)
    \o (IF ModalPresent(obs) THEN <<"modal">> ELSE <<>>)

\* C27: the composed message lists its parts in one fixed order: the action
\* taken (only if an action was performed), the page title (always), visible
\* button labels (only if any), empty or fillable inputs (only if any),
\* detected prices (only if any), then a modal-present notice if a modal is
\* present; an absent part is omitted without changing the order of the others.
C27_MessageParts ==
    \A r \in Slots :
       LET f == req[r] IN
       (f.pc = "done" /\ f.result.success) =>
          f.result.message = ComposedParts(f.result.action_taken, f.result.obs)

\* the rank of a log line's phase in the pipeline
Phase(line) ==
    CASE Tag(line) = "OPEN" -> 1
      [] Tag(line) = "OBSERVE" -> 2
      [] Tag(line) = "MATCH" -> 3
      [] Tag(line) = "ACT" -> 4
      [] OTHER -> 5

\* C28: in every result interact returns after the readiness check, the logs
\* list is ordered by pipeline phase: OPEN-tagged lines come first, then
\* OBSERVE, then MATCH, then ACT, and RESULT-tagged lines appear only at the
\* end; a successful result contains a line for every phase OPEN, OBSERVE,
\* MATCH, ACT and RESULT.
C28_LogsByPhase ==
    \A r \in Slots :
       LET f == req[r]
           logs == f.result.logs
       IN  (f.pc = "done" /\ logs # <<>>) =>
              /\ \A i, j \in DOMAIN logs : i < j => Phase(logs[i]) <= Phase(logs[j])
              /\ f.result.success => {Phase(logs[i]) : i \in DOMAIN logs} = 1..5

\* the positions, in document order, of the visible button candidates
ButtonCandidates(page) == Visible(page, {"button", "a"}, "btn")

C30_SelectorsResolve ==
    \A r \in SeqSlots :
       LET sc == req[r].scan IN
       sc.done =>
          /\ \A i \in DOMAIN sc.buttons :
                Resolve(sc.page, sc.buttons[i].selector) = {sc.buttons[i].el}
          /\ \A i \in DOMAIN sc.inputs :
                Resolve(sc.page, sc.inputs[i].selector) = {sc.inputs[i].el}

\* C31: cross-session isolation of interact.  A step of an interact call for
\* session_id A, on the success path or in the catch block, leaves the map
\* entry of every other session_id B, the page registered under B and B's
\* stored URL as they were.  The steps of a call are the steps that move its
\* frame.
C31_OtherSessionsUntouched ==
    [][\A r \in Slots :
          req'[r] # req[r] =>
             \A b \in SessionIds \ {req'[r].sid} :
                /\ sessions'[b] = sessions[b]
                /\ sessions[b] # NoPage =>
                      /\ pageStatus'[sessions[b]] = pageStatus[sessions[b]]
                      /\ sessUrl'[sessions[b]] = sessUrl[sessions[b]]
                      /\ pageUrl'[sessions[b]] = pageUrl[sessions[b]]
      ]_vars

\* a call for s1 has gone through the catch block, which removed s1's entry,
\* while s2 is registered with an open page
C31_Witness ==
    \E r \in Slots :
       /\ req[r].pc = "done" /\ req[r].sid = "s1" /\ req[r].caught # "none"
       /\ ~req[r].result.success
       /\ sessions["s1"] = NoPage
       /\ sessions["s2"] # NoPage /\ pageStatus[sessions["s2"]] = "open"

\* C32: when two interact calls for the same previously unseen session_id are
\* in flight concurrently, only one page remains open for that session_id
\* once both have returned: no page created by either call is left open
\* without being referenced by the session map, and a failure of one call does
\* not close the page the other call is still using.
C32_OnePagePerSession ==
    \A r1, r2 \in Slots :
       (r1 # r2 /\ req[r1].sid = req[r2].sid /\ req[r1].startPage = NoPage
          /\ req[r2].startPage = NoPage) =>
          /\ (req[r1].pc = "done" /\ req[r2].pc = "done") =>
                \A p \in Pages :
                   (pageStatus[p] = "open" /\ p \in {req[r1].page, req[r2].page}) =>
                      sessions[req[r1].sid] = p
          /\ (req[r1].pc = "done" /\ req[r1].caught # "none" /\ InFlight(req[r2])
                 /\ req[r1].closing # NoPage) =>
                req[r2].page # req[r1].closing

\* C33: readiness invariant.  In every reachable state, including when
\* start fails part-way or interact runs while start is still in progress,
\* isReady is true only if both the browser and the browsing context have
\* been created; so interact never reaches session work with a missing
\* context: a call that is past its readiness check has a context.
C33_ReadyOnlyWithContext ==
    /\ isReady => (browser # "null" /\ context)
    /\ \A r \in Slots :
          (InFlight(req[r]) \/ req[r].logs # <<>>) => context

\* a call is creating its page on a started worker
C33_Witness ==
    \E r \in Slots :
       /\ req[r].pc = "newPage" /\ isReady /\ startPc = "done" /\ context

\* the positions of the booking steps
BookingPcs == {"fillIn", "fillOut", "fillGuests", "search", "searchWait"}

\* C34: interact takes the structured-booking path if and only if
\* booking_data accompanies the request and either the message matches the
\* booking vocabulary or both check_in and check_out are supplied; on that
\* path decideAction is never consulted, and on the other path no booking
\* fill and no search click is attempted.
C34_BookingPathIff ==
    [][\A r \in SeqSlots :
          LET f == req[r]
              g == req'[r]
              asked == /\ f.booking.present
                       /\ \/ Mentions({"rezerv", "book", "zapazi", "nalichnost", "svobodn",
                                        "availability"}, f.msg)
                          \/ (f.booking.check_in # "" /\ f.booking.check_out # "")
          IN  /\ f.pc = "branch" =>
                    /\ asked <=> g.decision = NoDecision
                    /\ asked <=> (g.pc \in BookingPcs)
              /\ g.pc \in BookingPcs => g.decision = NoDecision
              /\ g.decision # NoDecision =>
                    \A i \in DOMAIN g.actions : g.actions[i] = "click"
              /\ f.decision = NoDecision => (g.decision = NoDecision \/ f.pc = "branch")
      ]_vars

\* a request with booking_data and dates but no booking word has filled the
\* check-in date without a decision being taken
C34_Witness ==
    \E r \in SeqSlots :
       /\ req[r].pc = "fillOut" /\ ~req[r].intent /\ req[r].booking.present
       /\ req[r].actions = <<"checkin">> /\ req[r].decision = NoDecision

\* C35: when both check_in and check_out are supplied and both fills are
\* reported as performed, the two values were written to two different
\* inputs: the check-out fill never targets the input that the check-in fill
\* has just written.
C35_DatesIntoDifferentInputs ==
    [][\A r \in SeqSlots :
          LET f == req[r]
              g == req'[r]
          IN  (/\ f.pc = "fillOut" /\ f.booking.check_in # ""
               /\ f.lastFill.attempt > 0 /\ g.lastFill.attempt > 0
               /\ g.actions = <<"checkin", "checkout">>) =>
                 g.lastFill.selector # f.lastFill.selector
      ]_vars

\* the actions of the worker commands the edge function has sent, in order
SentActions == [i \in DOMAIN edge.sent |-> edge.sent[i].action]

\* C36: edge function, legacy assistedBooking/assisted_booking: a submit
\* command is sent to the worker only when payload.mode is "execute"; in every
\* other case no submit command is ever sent, whatever the open, look and fill
\* results were, and the response is marked mode "preview".
C36_SubmitOnlyInExecuteMode ==
    edge.type \in AssistedTypes =>
       /\ (\E i \in DOMAIN edge.sent : edge.sent[i].action = "submit") =>
              edge.payload.mode = "execute"
       /\ (edge.payload.mode # "execute" /\ edge.response.returned) =>
              edge.response.mode = "preview"

\* C36 as amended: the response of a call that is not in execute mode is
\* marked "preview" unless the open result reported success=false or a worker
\* call threw.
C36_SubmitOnlyInExecuteModeAmended ==
    edge.type \in AssistedTypes =>
       /\ (\E i \in DOMAIN edge.sent : edge.sent[i].action = "submit") =>
              edge.payload.mode = "execute"
       /\ (/\ edge.payload.mode # "execute"
           /\ edge.response.returned
           /\ edge.response.status = 200
           /\ edge.steps[1].success) =>
              edge.response.mode = "preview"

\* a call without a mode filled a field, the fill failed, and the call was
\* answered
C36_Witness ==
    /\ edge.type \in AssistedTypes
    /\ edge.payload.mode = ""
    /\ edge.response.returned
    /\ edge.response.mode = "preview"
    /\ Len(edge.steps) = 3
    /\ edge.sent[3].action = "fill"
    /\ ~edge.steps[3].success

\* C37: edge function, legacy availability check: the worker commands are
\* issued in the order open, look, click, look; the click is issued only if
\* the first look returned a button matching the availability vocabulary; if
\* open or the first look reports success=false, no further command is issued
\* and that failing result is returned as the response.
C37_AvailabilityCommandOrder ==
    edge.type \in AvailabilityTypes =>
       /\ SentActions = SubSeq(<<"open", "look", "click", "look">>, 1, Len(edge.sent))
       /\ Len(edge.sent) >= 3 =>
              \E k \in DOMAIN edge.look.data.buttons :
                 /\ TestI(AvailabilityWords, edge.look.data.buttons[k].text)
                 /\ edge.sent[3].target = edge.look.data.buttons[k].selector
       /\ \A i \in DOMAIN edge.steps :
              (i <= 2 /\ ~edge.steps[i].success) =>
                 /\ Len(edge.sent) = i
                 /\ edge.response.returned
                 /\ edge.response.body = "result"
                 /\ edge.response.result = edge.steps[i]

\* an availability check that clicked the button and looked again
C37_Witness ==
    /\ edge.type \in AvailabilityTypes
    /\ edge.response.returned
    /\ Len(edge.sent) = 4
    /\ edge.sent[3].action = "click"
    /\ edge.sent[3].target = "#search"

\* an availability check whose first look failed
C37_WitnessLookFailed ==
    /\ edge.type \in AvailabilityTypes
    /\ Len(edge.steps) = 2
    /\ ~edge.steps[2].success
    /\ edge.response.returned

\* C38: command worker, session isolation: a look, click, fill, submit,
\* screenshot, refresh or close command that carries a sessionId operates only
\* on the page registered under that sessionId; if the sessionId is not in the
\* session map the command reports "No active session" (close does nothing)
\* and touches the page of no other session.
C38_CommandsKeepToTheirSession ==
    [][(/\ Initialized
        /\ cmd'.action \in PageActions \cup {"close"}
        /\ cmd'.sessionId # "") =>
          IF sessions[cmd'.sessionId] # NoPage
          THEN /\ cmd'.page = sessions[cmd'.sessionId]
               /\ \A q \in Pages \ {cmd'.page} : pageStatus'[q] = pageStatus[q]
          ELSE /\ cmd'.page = NoPage
               /\ cmd'.action # "close" => cmd'.error = "No active session"
               /\ pageStatus' = pageStatus
               /\ sessions' = sessions
               /\ defaultSession' = defaultSession
      ]_vars

\* C39: command worker, open: if navigation fails, the newly created page is
\* closed, the session map and the default session are left as they were (a
\* session registered under the same sessionId keeps its page as it was), and
\* execute returns success=false; if navigation succeeds and the sessionId was
\* already registered, the old page is closed and the new page is the one
\* registered under that id.
C39_OpenFailureLeavesSessions ==
    [][(Initialized /\ cmd'.action = "open") =>
          LET p == cmd'.page
              sid == cmd'.sessionId
          IN  IF pageUrl'[p] = Blank
              THEN /\ pageStatus'[p] = "closed"
                   /\ \A q \in Pages \ {p} : pageStatus'[q] = pageStatus[q]
                   /\ sessions' = sessions
                   /\ defaultSession' = defaultSession
                   /\ ~cmd'.success
              ELSE (sid # "" /\ sessions[sid] # NoPage) =>
                      /\ pageStatus'[sessions[sid]] = "closed"
                      /\ sessions'[sid] = p
                      /\ pageStatus'[p] = "open"
                      /\ \A t \in CommandIds \ {sid} : sessions'[t] = sessions[t]
      ]_vars

\* an open of s1 failed to navigate while s1 was registered with an open page
C39_Witness ==
    /\ cmd.action = "open"
    /\ cmd.sessionId = "s1"
    /\ ~cmd.success
    /\ cmd.page # NoPage
    /\ pageStatus[cmd.page] = "closed"
    /\ sessions["s1"] # NoPage
    /\ pageStatus[sessions["s1"]] = "open"

\* an open of s1 replaced the page registered under s1
C39_WitnessReplaced ==
    /\ cmd.action = "open"
    /\ cmd.sessionId = "s1"
    /\ cmd.success
    /\ sessions["s1"] = cmd.page
    /\ \E q \in Pages \ {cmd.page} : pageStatus[q] = "closed"

\* C40: command worker, map consistency: after any sequence of open and
\* close commands, every session in the session map has a page that the
\* worker has not closed, and the default session is null or a session of the
\* map.
C40_SessionMapConsistent ==
    /\ \A id \in DOMAIN sessions :
          sessions[id] # NoPage => pageStatus[sessions[id]] # "closed"
    /\ \/ defaultSession = NoPage
       \/ \E id \in DOMAIN sessions : sessions[id] = defaultSession

====
